---- MODULE Spec2Model ----
(***************************************************************************)
(* Model of the authentication / session / tenant-membership core of the   *)
(* bobo monorepo: TokenService, AuthService and TenantService              *)
(* (libs/auth/src/lib/services) together with the two stores they use:     *)
(* the relational store reached through Prisma and the Redis session store *)
(* reached through an ioredis client configured in AuthModule.forRoot.     *)
(***************************************************************************)
EXTENDS Integers, Sequences, FiniteSets, TLC

\* ------------------------------------------------------------------------
\* Bounds of the model
\* ------------------------------------------------------------------------
MaxSessions == 2       \* generateTokens calls of the one-step handlers
MaxTicks == 1          \* number of clock advances in one behaviour
MaxResets == 1         \* number of password-reset records created
MaxTenants == 2        \* number of tenants created by register
MaxRows == 3           \* number of tenant_users rows ever created
MaxContextSessions == 3  \* generateTokens calls, those of switchTenant included

\* ------------------------------------------------------------------------
\* Program constants
\* ------------------------------------------------------------------------
accessTokenExpiry == 3600
refreshTokenExpiry == 604800
resetTokenExpiry == 3600
sessionPrefix == "session:"
refreshTokenPrefix == "refresh:"
KeyPrefix == "auth:"
JWT_SECRET == "JWT_SECRET"
JWT_REFRESH_SECRET == "JWT_REFRESH_SECRET"

TenantRole == {"OWNER", "ADMIN", "MEMBER", "GUEST"}

\* Inputs
Emails == {"a@x.com", "b@x.com", "c@x.com"}
AuthEmails == {"a@x.com", "b@x.com"}
InviteEmails == {"b@x.com", "c@x.com"}
Passwords == {"P@ssw0rd1", "N3w@pass"}
Procs == {1, 2}

NoId == 0              \* null / undefined id
NoHash == <<>>         \* users.password_hash IS NULL

VARIABLES
  users,          \* users table: set of rows
  tenants,        \* tenants table: set of tenant ids
  tenantUsers,    \* tenant_users table: set of rows
  passwordResets, \* password_resets table: set of rows
  redis,          \* Redis key space: raw key -> [val, exp]
  now,            \* wall clock, seconds
  ticks,          \* number of clock advances so far
  ids,            \* generators of fresh ids (uuid, random bytes)
  issued,         \* every token pair handed to a client so far
  hist,           \* history: what has been revoked, consumed, outdated
  last,           \* the call that returned last, and its outcome
  calls,          \* in-flight calls of the concurrent handlers
  client          \* the web client: its module state and its requests

vars == <<users, tenants, tenantUsers, passwordResets, redis, now, ticks,
          ids, issued, hist, last, calls, client>>

dbVars == <<users, tenants, tenantUsers, passwordResets>>

\* ------------------------------------------------------------------------
\* Redis through the ioredis client (keyPrefix 'auth:')
\* A key is the sequence of its segments. Commands that take a key get the
\* client's keyPrefix prepended; KEYS takes a pattern, which ioredis sends
\* unprefixed, and its reply holds the raw key names.
\* ------------------------------------------------------------------------
Prefixed(key) == <<KeyPrefix>> \o key

redisHas(store, key, t) ==
  /\ Prefixed(key) \in DOMAIN store
  /\ t < store[Prefixed(key)].exp

redisGet(store, key) == store[Prefixed(key)].val

redisSetex(store, key, ttl, val, t) ==
  [k \in DOMAIN store \cup {Prefixed(key)} |->
     IF k = Prefixed(key) THEN [val |-> val, exp |-> t + ttl] ELSE store[k]]

redisDel(store, key) ==
  [k \in DOMAIN store \ {Prefixed(key)} |-> store[k]]

\* KEYS `${prefix}*`: glob match against the raw key names
redisKeys(store, prefix, t) ==
  {k \in DOMAIN store : /\ t < store[k].exp
                        /\ Len(k) > Len(prefix)
                        /\ SubSeq(k, 1, Len(prefix)) = prefix}

\* store-native TTL: keys whose time has come are gone
redisExpire(store, t) ==
  [k \in {j \in DOMAIN store : t < store[j].exp} |-> store[k]]

\* ------------------------------------------------------------------------
\* JWT (jsonwebtoken through @nestjs/jwt)
\* ------------------------------------------------------------------------
jwtSign(payload, secret, expiresIn, t) ==
  [sub |-> payload.sub, email |-> payload.email, tenantId |-> payload.tenantId,
   role |-> payload.role, permissions |-> payload.permissions,
   sessionId |-> payload.sessionId, type |-> payload.type,
   iat |-> t, exp |-> t + expiresIn, secret |-> secret]

jwtVerify(token, secret, t) == token.secret = secret /\ t < token.exp

\* ------------------------------------------------------------------------
\* TokenService
\* ------------------------------------------------------------------------
hashToken(token) == [sha256 |-> token]

SessionKey(sessionId) == <<sessionPrefix, sessionId>>
RefreshKey(token) == <<refreshTokenPrefix, hashToken(token)>>

storeSession(store, sessionId, sessionData, t) ==
  redisSetex(store, SessionKey(sessionId), refreshTokenExpiry, sessionData, t)

storeRefreshToken(store, token, userId, sessionId, t) ==
  redisSetex(store, RefreshKey(token), refreshTokenExpiry,
             [userId |-> userId, sessionId |-> sessionId], t)

isSessionValid(store, sessionId, t) == redisHas(store, SessionKey(sessionId), t)

isRefreshTokenValid(store, token, t) == redisHas(store, RefreshKey(token), t)

AccessTokenOf(userId, email, tenantId, role, permissions, sessionId, t) ==
  jwtSign([sub |-> userId, email |-> email, tenantId |-> tenantId,
           role |-> role, permissions |-> permissions,
           sessionId |-> sessionId, type |-> "access"],
          JWT_SECRET, accessTokenExpiry, t)

RefreshTokenOf(userId, email, tenantId, role, permissions, sessionId, t) ==
  jwtSign([sub |-> userId, email |-> email, tenantId |-> tenantId,
           role |-> role, permissions |-> permissions,
           sessionId |-> sessionId, type |-> "refresh"],
          JWT_REFRESH_SECRET, refreshTokenExpiry, t)

\* the AuthTokens returned by generateTokens for a fresh session id
generateTokensPair(userId, email, tenantId, role, permissions, sessionId, t) ==
  [accessToken  |-> AccessTokenOf(userId, email, tenantId, role, permissions,
                                  sessionId, t),
   refreshToken |-> RefreshTokenOf(userId, email, tenantId, role, permissions,
                                   sessionId, t)]

\* the Redis key space after generateTokens
generateTokensStore(store, userId, tenantId, sessionId, refreshToken, t) ==
  storeRefreshToken(
    storeSession(store, sessionId,
                 [userId |-> userId, tenantId |-> tenantId,
                  sessionId |-> sessionId, expiresAt |-> t + refreshTokenExpiry],
                 t),
    refreshToken, userId, sessionId, t)

\* faulty variant: the signature alone decides, the session is not looked up
verifyAccessToken_SignatureOnly(store, token, t) ==
  IF ~jwtVerify(token, JWT_SECRET, t) THEN "InvalidToken" ELSE "ok"

\* verifyAccessToken: "ok", or the failure it throws
verifyAccessToken(store, token, t) ==
  IF ~jwtVerify(token, JWT_SECRET, t) THEN "InvalidToken"
  ELSE IF ~isSessionValid(store, token.sessionId, t) THEN "SessionExpired"
  ELSE "ok"

\* verifyRefreshToken: "ok", or the failure it throws
verifyRefreshToken(store, token, t) ==
  IF ~jwtVerify(token, JWT_REFRESH_SECRET, t) THEN "InvalidToken"
  ELSE IF ~isRefreshTokenValid(store, token, t) THEN "InvalidToken"
  ELSE "ok"

\* faulty variant: every session key goes, whatever its id
revokeSession_Every(store, sessionId) ==
  [k \in {j \in DOMAIN store : j[2] # sessionPrefix} |-> store[k]]

\* faulty variant: the session key is left in place
revokeSession_Keep(store, sessionId) == store

revokeSession(store, sessionId) == redisDel(store, SessionKey(sessionId))

\* faulty variant: the refresh record is left in place
revokeRefreshToken_Keep(store, token) == store

revokeRefreshToken(store, token) == redisDel(store, RefreshKey(token))

\* revokeAllUserSessions: KEYS 'session:*', then GET and DEL of each reply
revokeAllUserSessions(store, userId, t) ==
  LET keys == redisKeys(store, <<sessionPrefix>>, t)
      hit  == {k \in keys : /\ redisHas(store, k, t)
                            /\ redisGet(store, k).userId = userId}
  IN  [k \in DOMAIN store \ {Prefixed(j) : j \in hit} |-> store[k]]

\* updateSessionLastUsed: reads the session and stores it again (fresh TTL)
updateSessionLastUsed(store, sessionId, t) ==
  IF redisHas(store, SessionKey(sessionId), t)
  THEN storeSession(store, sessionId, redisGet(store, SessionKey(sessionId)), t)
  ELSE store

\* ------------------------------------------------------------------------
\* Relational store (Prisma) and bcrypt
\* ------------------------------------------------------------------------
bcryptHash(password, salt) == <<salt, password>>

bcryptCompare(password, hash) == hash[2] = password

UserByEmail(email) == {u \in users : u.email = email}

UserById(id) == {u \in users : u.id = id}

\* include: { tenantUsers: { where: { isActive: true } } }
ActiveTenantUsers(userId) ==
  {tu \in tenantUsers : tu.userId = userId /\ tu.isActive}

\* prisma.tenantUser.findUnique({ where: { tenantId_userId } })
TenantUserOf(tenantId, userId) ==
  {tu \in tenantUsers : tu.tenantId = tenantId /\ tu.userId = userId}

\* "Determine tenant": the role and permissions found for tenantId among the
\* user's active memberships, 'MEMBER' and [] when there is none
TenantContext(userId, tenantId) ==
  LET found == {tu \in ActiveTenantUsers(userId) : tu.tenantId = tenantId}
  IN  IF tenantId # NoId /\ found # {}
      THEN LET tu == CHOOSE r \in found : TRUE
           IN  [role |-> tu.role, permissions |-> tu.permissions]
      ELSE [role |-> "MEMBER", permissions |-> <<>>]

\* a || b for ids
OrElse(a, b) == IF a # NoId THEN a ELSE b

\* what a returned call leaves for the observer: the handler, "ok" or the
\* kind of exception thrown, and the exception's message where the handler
\* throws one kind with several messages
Outcome(op, result, userId, sessionId, token, tokens) ==
  [op |-> op, result |-> result, userId |-> userId, sessionId |-> sessionId,
   token |-> token, tokens |-> tokens, tenantId |-> NoId, targetId |-> NoId,
   message |-> ""]

TenantOutcome(op, result, tenantId, userId, targetId) ==
  [op |-> op, result |-> result, userId |-> userId, sessionId |-> NoId,
   token |-> {}, tokens |-> {}, tenantId |-> tenantId, targetId |-> targetId,
   message |-> ""]

NextSessionId == ids.session + 1

\* generateTokens as the tail of a handler: mints for a fresh session id on
\* top of the key space `store` and hands the pair to the caller
Mint(op, store, user, tenantId, ctx, sessionId, token) ==
  LET sid  == NextSessionId
      pair == generateTokensPair(user.id, user.email, tenantId, ctx.role,
                                 ctx.permissions, sid, now)
  IN  /\ redis' = generateTokensStore(store, user.id, tenantId, sid,
                                      pair.refreshToken, now)
      /\ issued' = issued \cup {pair}
      /\ last' = Outcome(op, "ok", user.id, sessionId, token, {pair})

\* ------------------------------------------------------------------------
\* AuthService (each handler as one step)
\* ------------------------------------------------------------------------
\* faulty variant: the registering user is linked as a plain member
OwnerMembership_AsMember(rowId, tenantId, userId) ==
  [id |-> rowId, tenantId |-> tenantId, userId |-> userId, role |-> "MEMBER",
   permissions |-> <<>>, isActive |-> TRUE, invitedBy |-> NoId,
   invited |-> FALSE]

\* tx.tenantUser.create({ data: { userId, tenantId, role: 'OWNER', isActive: true } })
OwnerMembership(rowId, tenantId, userId) ==
  [id |-> rowId, tenantId |-> tenantId, userId |-> userId, role |-> "OWNER",
   permissions |-> <<>>, isActive |-> TRUE, invitedBy |-> NoId,
   invited |-> FALSE]

Register(email, password, salt) ==
  IF UserByEmail(email) # {}
  THEN /\ last' = Outcome("register", "Conflict", NoId, NoId, {}, {})
       /\ UNCHANGED <<dbVars, redis, now, ticks, client, ids, issued, hist, calls>>
  ELSE /\ ids.session < MaxSessions
       /\ ids.tenant < MaxTenants
       /\ ids.row < MaxRows
       /\ LET tenantId == ids.tenant + 1
              user == [id |-> ids.user + 1, email |-> email,
                       passwordHash |-> bcryptHash(password, salt),
                       isActive |-> TRUE, isVerified |-> FALSE,
                       defaultTenantId |-> tenantId]
              tu == OwnerMembership(ids.row + 1, tenantId, user.id)
          IN  /\ tenants' = tenants \cup {tenantId}
              /\ users' = users \cup {user}
              /\ tenantUsers' = tenantUsers \cup {tu}
              /\ Mint("register", redis, user, tenantId,
                      [role |-> "OWNER", permissions |-> <<>>], NoId, {})
              /\ ids' = [ids EXCEPT !.tenant = @ + 1, !.user = @ + 1,
                                    !.row = @ + 1, !.session = @ + 1]
       /\ UNCHANGED <<passwordResets, now, ticks, client, hist, calls>>

LoginFail(result) ==
  /\ last' = Outcome("login", result, NoId, NoId, {}, {})
  /\ UNCHANGED <<dbVars, redis, now, ticks, client, ids, issued, hist, calls>>

\* faulty variant: an unknown email is answered with NotFound
LoginResult_NotFound(email, password) ==
  IF UserByEmail(email) = {} THEN "NotFound"
  ELSE LET user == CHOOSE u \in UserByEmail(email) : TRUE IN
    IF ~user.isActive THEN "InvalidCredentials"
    ELSE IF user.passwordHash = NoHash THEN "InvalidCredentialsOAuth"
    ELSE IF ~bcryptCompare(password, user.passwordHash) THEN "InvalidCredentials"
    ELSE "ok"

\* login up to the password check: "ok", or the failure it throws.
\* "InvalidCredentials" is UnauthorizedException('Invalid credentials'),
\* "InvalidCredentialsOAuth" is UnauthorizedException('This account uses OAuth.
\* Please login with your OAuth provider.')
LoginResult(email, password) ==
  IF UserByEmail(email) = {} THEN "InvalidCredentials"
  ELSE LET user == CHOOSE u \in UserByEmail(email) : TRUE IN
    IF ~user.isActive THEN "InvalidCredentials"
    ELSE IF user.passwordHash = NoHash THEN "InvalidCredentialsOAuth"
    ELSE IF ~bcryptCompare(password, user.passwordHash) THEN "InvalidCredentials"
    ELSE "ok"

Login(email, password, dtoTenantId) ==
  IF LoginResult(email, password) # "ok"
  THEN LoginFail(LoginResult(email, password))
  ELSE LET user == CHOOSE u \in UserByEmail(email) : TRUE IN
      /\ ids.session < MaxSessions
      /\ LET tenantId == OrElse(dtoTenantId, user.defaultTenantId) IN
           IF tenantId # NoId \/ ActiveTenantUsers(user.id) = {}
           THEN Mint("login", redis, user, tenantId,
                     TenantContext(user.id, tenantId), NoId, {})
           ELSE \E first \in ActiveTenantUsers(user.id) :
                  Mint("login", redis, user, first.tenantId,
                       [role |-> first.role, permissions |-> first.permissions],
                       NoId, {})
      /\ ids' = [ids EXCEPT !.session = @ + 1]
      /\ UNCHANGED <<dbVars, now, ticks, client, hist, calls>>

RefreshFail(result, token) ==
  /\ last' = Outcome("refreshToken", result, NoId, token.sessionId, {token}, {})
  /\ UNCHANGED <<dbVars, redis, now, ticks, client, ids, issued, hist, calls>>

RefreshToken(token, dtoTenantId) ==
  IF verifyRefreshToken(redis, token, now) # "ok"
  THEN RefreshFail(verifyRefreshToken(redis, token, now), token)
  ELSE IF UserById(token.sub) = {} THEN RefreshFail("Unauthorized", token)
  ELSE LET user == CHOOSE u \in UserById(token.sub) : TRUE IN
    IF ~user.isActive THEN RefreshFail("Unauthorized", token)
    ELSE
      /\ ids.session < MaxSessions
      /\ LET tenantId == OrElse(dtoTenantId,
                                OrElse(token.tenantId, user.defaultTenantId))
             store == revokeRefreshToken(revokeSession(redis, token.sessionId),
                                         token)
         IN  Mint("refreshToken", store, user, tenantId,
                  TenantContext(user.id, tenantId), token.sessionId, {token})
      /\ hist' = [hist EXCEPT !.revoked = @ \cup {token.sessionId},
                              !.consumed = @ \cup {token}]
      /\ ids' = [ids EXCEPT !.session = @ + 1]
      /\ UNCHANGED <<dbVars, now, ticks, client, calls>>

Logout(userId, sessionId) ==
  /\ redis' = revokeSession(redis, sessionId)
  /\ hist' = [hist EXCEPT !.revoked = @ \cup {sessionId}]
  /\ last' = Outcome("logout", "ok", userId, sessionId, {}, {})
  /\ UNCHANGED <<dbVars, now, ticks, client, ids, issued, calls>>

\* history: the sessions that revokeAllUserSessions removes from `store`
RevokedByAll(store, userId, t) ==
  {sid \in 1..ids.session :
     /\ isSessionValid(store, sid, t)
     /\ ~isSessionValid(revokeAllUserSessions(store, userId, t), sid, t)}

\* history: the refresh tokens handed to the user so far
RefreshTokensOf(userId) ==
  {p.refreshToken : p \in {q \in issued : q.refreshToken.sub = userId}}

LogoutAll(userId) ==
  /\ redis' = revokeAllUserSessions(redis, userId, now)
  /\ hist' = [hist EXCEPT !.revoked = @ \cup RevokedByAll(redis, userId, now)]
  /\ last' = Outcome("logoutAll", "ok", userId, NoId, {}, {})
  /\ UNCHANGED <<dbVars, now, ticks, client, ids, issued, calls>>

ChangePasswordFail(result, userId) ==
  /\ last' = Outcome("changePassword", result, userId, NoId, {}, {})
  /\ UNCHANGED <<dbVars, redis, now, ticks, client, ids, issued, hist, calls>>

ChangePassword(userId, currentPassword, newPassword, newSalt) ==
  LET user == CHOOSE u \in UserById(userId) : TRUE IN
  IF user.passwordHash = NoHash THEN ChangePasswordFail("BadRequest", userId)
  ELSE IF ~bcryptCompare(currentPassword, user.passwordHash)
       THEN ChangePasswordFail("Unauthorized", userId)
  ELSE
    /\ users' = (users \ {user}) \cup
                {[user EXCEPT !.passwordHash = bcryptHash(newPassword, newSalt)]}
    /\ redis' = revokeAllUserSessions(redis, userId, now)
    /\ hist' = [hist EXCEPT !.revoked = @ \cup RevokedByAll(redis, userId, now),
                            !.outdated = @ \cup RefreshTokensOf(userId)]
    /\ last' = Outcome("changePassword", "ok", userId, NoId, {}, {})
    /\ UNCHANGED <<tenants, tenantUsers, passwordResets, now, ticks, client, ids,
                   issued, calls>>

\* the raw reset token is crypto.randomBytes(32): a fresh number here
resetTokenHash(resetToken) == [sha256 |-> resetToken]

\* faulty variant: an unknown email is answered with NotFound
ForgotPassword_Reveals(email) ==
  IF UserByEmail(email) = {}
  THEN /\ last' = Outcome("forgotPassword", "NotFound", NoId, NoId, {}, {})
       /\ UNCHANGED <<dbVars, redis, now, ticks, client, ids, issued, hist, calls>>
  ELSE /\ ids.reset < MaxResets
       /\ LET user == CHOOSE u \in UserByEmail(email) : TRUE
              resetToken == ids.reset + 1
          IN  passwordResets' = passwordResets \cup
                {[id |-> resetToken, userId |-> user.id,
                  tokenHash |-> resetTokenHash(resetToken),
                  expiresAt |-> now + resetTokenExpiry, isUsed |-> FALSE]}
       /\ ids' = [ids EXCEPT !.reset = @ + 1]
       /\ last' = Outcome("forgotPassword", "ok", NoId, NoId, {}, {})
       /\ UNCHANGED <<users, tenants, tenantUsers, redis, now, ticks, client, issued,
                      hist, calls>>

ForgotPassword(email) ==
  IF UserByEmail(email) = {}
  THEN /\ last' = Outcome("forgotPassword", "ok", NoId, NoId, {}, {})
       /\ UNCHANGED <<dbVars, redis, now, ticks, client, ids, issued, hist, calls>>
  ELSE /\ ids.reset < MaxResets
       /\ LET user == CHOOSE u \in UserByEmail(email) : TRUE
              resetToken == ids.reset + 1
          IN  passwordResets' = passwordResets \cup
                {[id |-> resetToken, userId |-> user.id,
                  tokenHash |-> resetTokenHash(resetToken),
                  expiresAt |-> now + resetTokenExpiry, isUsed |-> FALSE]}
       /\ ids' = [ids EXCEPT !.reset = @ + 1]
       /\ last' = Outcome("forgotPassword", "ok", NoId, NoId, {}, {})
       /\ UNCHANGED <<users, tenants, tenantUsers, redis, now, ticks, client, issued,
                      hist, calls>>

\* prisma.passwordReset.findUnique({ where: { tokenHash } })
ResetRecordOf(token) ==
  {r \in passwordResets : r.tokenHash = resetTokenHash(token)}

\* faulty variant: a used record is taken again
ResetPasswordResult_Reusable(token) ==
  IF ResetRecordOf(token) = {} \/ (\E r \in ResetRecordOf(token) : r.expiresAt < now)
  THEN "BadRequest" ELSE "ok"

\* resetPassword up to its writes: "ok", or the failure it throws
ResetPasswordResult(token) ==
  IF ResetRecordOf(token) = {}
     \/ (\E r \in ResetRecordOf(token) : r.isUsed \/ r.expiresAt < now)
  THEN "BadRequest" ELSE "ok"

ResetPassword(token, newPassword, newSalt) ==
  LET found == ResetRecordOf(token) IN
  IF ResetPasswordResult(token) # "ok"
  THEN /\ last' = Outcome("resetPassword", ResetPasswordResult(token), NoId, NoId,
                          {}, {})
       /\ UNCHANGED <<dbVars, redis, now, ticks, client, ids, issued, hist, calls>>
  ELSE LET r == CHOOSE x \in found : TRUE
           user == CHOOSE u \in UserById(r.userId) : TRUE
       IN
    /\ users' = (users \ {user}) \cup
                {[user EXCEPT !.passwordHash = bcryptHash(newPassword, newSalt)]}
    /\ passwordResets' = (passwordResets \ {r}) \cup {[r EXCEPT !.isUsed = TRUE]}
    /\ redis' = revokeAllUserSessions(redis, r.userId, now)
    /\ hist' = [hist EXCEPT !.revoked = @ \cup RevokedByAll(redis, r.userId, now),
                            !.outdated = @ \cup RefreshTokensOf(r.userId)]
    /\ last' = Outcome("resetPassword", "ok", r.userId, NoId, {}, {})
    /\ UNCHANGED <<tenants, tenantUsers, now, ticks, client, ids, issued, calls>>

\* JwtStrategy.validate on an authenticated request: passport-jwt has checked
\* signature and expiry of the bearer token, validate looks the session up
JwtStrategyValidate(token) ==
  /\ last' = Outcome("validate",
                     IF ~jwtVerify(token, JWT_SECRET, now) THEN "InvalidToken"
                     ELSE IF ~redisHas(redis, SessionKey(token.sessionId), now)
                          THEN "SessionExpired"
                     ELSE "ok",
                     token.sub, token.sessionId, {token}, {})
  /\ redis' = IF jwtVerify(token, JWT_SECRET, now)
                 /\ redisHas(redis, SessionKey(token.sessionId), now)
              THEN updateSessionLastUsed(redis, token.sessionId, now)
              ELSE redis
  /\ UNCHANGED <<dbVars, now, ticks, client, ids, issued, hist, calls>>

\* faulty variant: a membership that is not active opens the tenant too
SwitchAccess_AnyMembership(tenantId, userId) == TenantUserOf(tenantId, userId)

\* switchTenant's findUnique and check: the active membership, or none
SwitchAccess(tenantId, userId) ==
  {tu \in TenantUserOf(tenantId, userId) : tu.isActive}

SwitchTenant(userId, tenantId) ==
  IF SwitchAccess(tenantId, userId) = {}
  THEN /\ last' = [Outcome("switchTenant", "Unauthorized", userId, NoId, {}, {})
                     EXCEPT !.tenantId = tenantId]
       /\ UNCHANGED <<dbVars, redis, now, ticks, client, ids, issued, hist, calls>>
  ELSE
    /\ ids.session < MaxContextSessions
    /\ LET tenantUser == CHOOSE tu \in SwitchAccess(tenantId, userId) : TRUE
           user == CHOOSE u \in UserById(userId) : TRUE
           sid == NextSessionId
           pair == generateTokensPair(userId, user.email, tenantId,
                                      tenantUser.role, tenantUser.permissions,
                                      sid, now)
       IN  /\ redis' = generateTokensStore(redis, userId, tenantId, sid,
                                           pair.refreshToken, now)
           /\ issued' = issued \cup {pair}
           /\ last' = [Outcome("switchTenant", "ok", userId, NoId, {}, {pair})
                         EXCEPT !.tenantId = tenantId]
    /\ ids' = [ids EXCEPT !.session = @ + 1]
    /\ UNCHANGED <<dbVars, now, ticks, client, hist, calls>>

\* time passes; Redis drops the keys whose TTL has run out
Tick(d) ==
  /\ ticks < MaxTicks
  /\ ticks' = ticks + 1
  /\ now' = now + d
  /\ redis' = redisExpire(redis, now + d)
  /\ UNCHANGED <<dbVars, ids, issued, hist, last, calls, client>>

\* ------------------------------------------------------------------------
\* TenantService (each handler as one step)
\* ------------------------------------------------------------------------
authVars == <<redis, now, ticks, issued, hist, calls, client>>

\* faulty variant: a membership that is not active gives access too
verifyTenantAccess_Inactive(tenantId, userId) == TenantUserOf(tenantId, userId)

\* verifyTenantAccess: the caller's active membership, or none (Unauthorized)
verifyTenantAccess(tenantId, userId) ==
  {tu \in TenantUserOf(tenantId, userId) : tu.isActive}

\* a failed call changes nothing; the observer keeps the handler and failure
TenantFail(op, result, tenantId, userId, targetId) ==
  /\ last' = TenantOutcome(op, result, NoId, NoId, NoId)
  /\ UNCHANGED <<dbVars, ids, authVars>>

\* prisma.tenantUser.update({ where: { id }, data })
UpdateRow(rows, id, role, permissions, isActive) ==
  {IF tu.id = id
   THEN [tu EXCEPT !.role = IF role = {} THEN @ ELSE CHOOSE r \in role : TRUE,
                   !.permissions = IF permissions = {} THEN @
                                   ELSE CHOOSE x \in permissions : TRUE,
                   !.isActive = IF isActive = {} THEN @
                                ELSE CHOOSE b \in isActive : TRUE]
   ELSE tu : tu \in rows}

\* prisma.tenantUser.delete({ where: { id } })
DeleteRow(rows, id) == {tu \in rows : tu.id # id}

\* getTenantMembers up to its query: "ok", or the failure it throws
GetTenantMembersResult(tenantId, userId) ==
  IF verifyTenantAccess(tenantId, userId) = {} THEN "Unauthorized"
  ELSE LET tenantUser == CHOOSE tu \in verifyTenantAccess(tenantId, userId) : TRUE IN
    IF tenantUser.role \notin {"OWNER", "ADMIN"} THEN "Forbidden" ELSE "ok"

GetTenantMembers(tenantId, userId) ==
  IF GetTenantMembersResult(tenantId, userId) # "ok"
  THEN TenantFail("getTenantMembers", GetTenantMembersResult(tenantId, userId),
                  tenantId, userId, NoId)
  ELSE /\ last' = TenantOutcome("getTenantMembers", "ok", tenantId, userId, NoId)
       /\ UNCHANGED <<dbVars, ids, authVars>>

\* faulty variant: the invited account is created as a verified one
InvitedUser_Verified(id, email) ==
  [id |-> id, email |-> email, passwordHash |-> NoHash, isActive |-> TRUE,
   isVerified |-> TRUE, defaultTenantId |-> NoId]

\* tx.user.create({ data: { email, isActive: true, isVerified: false, ... } })
InvitedUser(id, email) ==
  [id |-> id, email |-> email, passwordHash |-> NoHash, isActive |-> TRUE,
   isVerified |-> FALSE, defaultTenantId |-> NoId]

\* faulty variant: the invited membership is active from the start
InvitedMembership_Active(rowId, tenantId, userId, role, permissions, inviterId) ==
  [id |-> rowId, tenantId |-> tenantId, userId |-> userId, role |-> role,
   permissions |-> IF permissions = {} THEN <<>>
                   ELSE CHOOSE x \in permissions : TRUE,
   isActive |-> TRUE, invitedBy |-> inviterId, invited |-> TRUE]

\* tx.tenantUser.create({ data: { ..., isActive: false, invitedBy, invitedAt } })
InvitedMembership(rowId, tenantId, userId, role, permissions, inviterId) ==
  [id |-> rowId, tenantId |-> tenantId, userId |-> userId, role |-> role,
   permissions |-> IF permissions = {} THEN <<>>
                   ELSE CHOOSE x \in permissions : TRUE,
   isActive |-> FALSE, invitedBy |-> inviterId, invited |-> TRUE]

\* inviteUser up to its transaction: "ok", or the failure it throws
InviteUserResult(tenantId, inviterId, email) ==
  IF verifyTenantAccess(tenantId, inviterId) = {} THEN "Unauthorized"
  ELSE LET inviter == CHOOSE tu \in verifyTenantAccess(tenantId, inviterId) : TRUE IN
    IF inviter.role \notin {"OWNER", "ADMIN"} THEN "Forbidden"
    ELSE IF \E u \in UserByEmail(email) : TenantUserOf(tenantId, u.id) # {}
    THEN "Conflict"
    ELSE "ok"

\* dto.permissions is a set: empty when the field is undefined
InviteUser(tenantId, inviterId, email, role, permissions) ==
  IF InviteUserResult(tenantId, inviterId, email) # "ok"
  THEN TenantFail("inviteUser", InviteUserResult(tenantId, inviterId, email),
                  tenantId, inviterId, NoId)
  ELSE
      /\ ids.row < MaxRows
      /\ LET existing == UserByEmail(email)
             user == IF existing # {} THEN CHOOSE u \in existing : TRUE
                     ELSE InvitedUser(ids.user + 1, email)
         IN  /\ users' = users \cup {user}
             /\ tenantUsers' = tenantUsers \cup
                  {InvitedMembership(ids.row + 1, tenantId, user.id, role,
                                     permissions, inviterId)}
             /\ ids' = [ids EXCEPT !.row = @ + 1,
                                   !.user = IF existing = {} THEN @ + 1 ELSE @]
             /\ last' = TenantOutcome("inviteUser", "ok", tenantId, inviterId,
                                      user.id)
      /\ UNCHANGED <<tenants, passwordResets, authVars>>

\* findFirst({ userId, isActive: false, invitedAt: { not: null } }): any of them
AcceptInvitation(userId) ==
  LET pending == {tu \in tenantUsers :
                    tu.userId = userId /\ ~tu.isActive /\ tu.invited}
  IN  IF pending = {}
      THEN TenantFail("acceptInvitation", "NotFound", NoId, userId, NoId)
      ELSE \E tenantUser \in pending :
             /\ tenantUsers' = UpdateRow(tenantUsers, tenantUser.id, {}, {}, {TRUE})
             /\ last' = TenantOutcome("acceptInvitation", "ok",
                                      tenantUser.tenantId, userId, userId)
             /\ UNCHANGED <<users, tenants, passwordResets, ids, authVars>>

\* faulty variant: an OWNER's role may be changed like any other
UpdateMemberResult_OwnerRoleFree(tenantId, updaterId, userId, role) ==
  IF verifyTenantAccess(tenantId, updaterId) = {} THEN "Unauthorized"
  ELSE LET updater == CHOOSE tu \in verifyTenantAccess(tenantId, updaterId) : TRUE IN
    IF updater.role \notin {"OWNER", "ADMIN"} THEN "Forbidden"
    ELSE IF TenantUserOf(tenantId, userId) = {} THEN "NotFound"
    ELSE LET member == CHOOSE tu \in TenantUserOf(tenantId, userId) : TRUE IN
      IF updater.role # "OWNER" /\ (role = {"OWNER"} \/ member.role = "OWNER")
      THEN "Forbidden"
      ELSE "ok"

\* faulty variant: an ADMIN may manage the OWNER role
UpdateMemberResult_AdminGrants(tenantId, updaterId, userId, role) ==
  IF verifyTenantAccess(tenantId, updaterId) = {} THEN "Unauthorized"
  ELSE LET updater == CHOOSE tu \in verifyTenantAccess(tenantId, updaterId) : TRUE IN
    IF updater.role \notin {"OWNER", "ADMIN"} THEN "Forbidden"
    ELSE IF TenantUserOf(tenantId, userId) = {} THEN "NotFound"
    ELSE LET member == CHOOSE tu \in TenantUserOf(tenantId, userId) : TRUE IN
      IF member.role = "OWNER" /\ role # {} /\ role # {"OWNER"} THEN "BadRequest"
      ELSE "ok"

\* updateMember up to its write: "ok", or the failure it throws.
\* dto.role is a set: empty when the field is undefined
UpdateMemberResult(tenantId, updaterId, userId, role) ==
  IF verifyTenantAccess(tenantId, updaterId) = {} THEN "Unauthorized"
  ELSE LET updater == CHOOSE tu \in verifyTenantAccess(tenantId, updaterId) : TRUE IN
    IF updater.role \notin {"OWNER", "ADMIN"} THEN "Forbidden"
    ELSE IF TenantUserOf(tenantId, userId) = {} THEN "NotFound"
    ELSE LET member == CHOOSE tu \in TenantUserOf(tenantId, userId) : TRUE IN
      IF member.role = "OWNER" /\ role # {} /\ role # {"OWNER"} THEN "BadRequest"
      ELSE IF updater.role # "OWNER" /\ (role = {"OWNER"} \/ member.role = "OWNER")
      THEN "Forbidden"
      ELSE "ok"

\* dto.role, dto.permissions, dto.isActive are sets: empty when undefined
UpdateMember(tenantId, updaterId, userId, role, permissions, isActive) ==
  IF UpdateMemberResult(tenantId, updaterId, userId, role) # "ok"
  THEN TenantFail("updateMember",
                  UpdateMemberResult(tenantId, updaterId, userId, role),
                  tenantId, updaterId, userId)
  ELSE LET member == CHOOSE tu \in TenantUserOf(tenantId, userId) : TRUE IN
    /\ tenantUsers' = UpdateRow(tenantUsers, member.id, role, permissions,
                                isActive)
    /\ last' = TenantOutcome("updateMember", "ok", tenantId, updaterId, userId)
    /\ UNCHANGED <<users, tenants, passwordResets, ids, authVars>>

\* faulty variant: the target's role is not looked at
RemoveMemberResult_AnyTarget(tenantId, removerId, userId) ==
  IF verifyTenantAccess(tenantId, removerId) = {} THEN "Unauthorized"
  ELSE LET remover == CHOOSE tu \in verifyTenantAccess(tenantId, removerId) : TRUE IN
    IF remover.role \notin {"OWNER", "ADMIN"} THEN "Forbidden"
    ELSE IF TenantUserOf(tenantId, userId) = {} THEN "NotFound"
    ELSE IF removerId = userId /\ remover.role = "ADMIN" THEN "BadRequest"
    ELSE "ok"

\* faulty variant: an admin may remove their own membership
RemoveMemberResult_AdminSelf(tenantId, removerId, userId) ==
  IF verifyTenantAccess(tenantId, removerId) = {} THEN "Unauthorized"
  ELSE LET remover == CHOOSE tu \in verifyTenantAccess(tenantId, removerId) : TRUE IN
    IF remover.role \notin {"OWNER", "ADMIN"} THEN "Forbidden"
    ELSE IF TenantUserOf(tenantId, userId) = {} THEN "NotFound"
    ELSE LET member == CHOOSE tu \in TenantUserOf(tenantId, userId) : TRUE IN
      IF member.role = "OWNER" THEN "BadRequest" ELSE "ok"

\* removeMember up to its delete: "ok", or the failure it throws
RemoveMemberResult(tenantId, removerId, userId) ==
  IF verifyTenantAccess(tenantId, removerId) = {} THEN "Unauthorized"
  ELSE LET remover == CHOOSE tu \in verifyTenantAccess(tenantId, removerId) : TRUE IN
    IF remover.role \notin {"OWNER", "ADMIN"} THEN "Forbidden"
    ELSE IF TenantUserOf(tenantId, userId) = {} THEN "NotFound"
    ELSE LET member == CHOOSE tu \in TenantUserOf(tenantId, userId) : TRUE IN
      IF member.role = "OWNER" THEN "BadRequest"
      ELSE IF removerId = userId /\ remover.role = "ADMIN" THEN "BadRequest"
      ELSE "ok"

\* the message of the BadRequestException that removeMember throws
RemoveMemberMessage(tenantId, removerId, userId) ==
  IF RemoveMemberResult(tenantId, removerId, userId) # "BadRequest" THEN ""
  ELSE IF \E member \in TenantUserOf(tenantId, userId) : member.role = "OWNER"
       THEN "Cannot remove owner. Transfer ownership first."
  ELSE "Admins cannot remove themselves"

RemoveMember(tenantId, removerId, userId) ==
  IF RemoveMemberResult(tenantId, removerId, userId) # "ok"
  THEN /\ last' = [TenantOutcome("removeMember",
                                 RemoveMemberResult(tenantId, removerId, userId),
                                 NoId, NoId, NoId)
                     EXCEPT !.message =
                       RemoveMemberMessage(tenantId, removerId, userId)]
       /\ UNCHANGED <<dbVars, ids, authVars>>
  ELSE LET member == CHOOSE tu \in TenantUserOf(tenantId, userId) : TRUE IN
    /\ tenantUsers' = DeleteRow(tenantUsers, member.id)
    /\ last' = TenantOutcome("removeMember", "ok", tenantId, removerId, userId)
    /\ UNCHANGED <<users, tenants, passwordResets, ids, authVars>>

\* the transaction of transferOwnership: demote, then promote
TransferRows(rows, currentOwnerRowId, newOwnerRowId) ==
  UpdateRow(UpdateRow(rows, currentOwnerRowId, {"ADMIN"}, {}, {}),
            newOwnerRowId, {"OWNER"}, {}, {})

\* faulty variant: any active member may hand the ownership over
TransferOwnershipResult_AnyCaller(tenantId, currentOwnerId, newOwnerId) ==
  IF verifyTenantAccess(tenantId, currentOwnerId) = {} THEN "Unauthorized"
  ELSE IF TenantUserOf(tenantId, newOwnerId) = {} THEN "NotFound"
  ELSE "ok"

\* faulty variant: the role in the caller's access token decides
TransferOwnershipResult_TokenRole(tenantId, currentOwnerId, newOwnerId) ==
  IF verifyTenantAccess(tenantId, currentOwnerId) = {} THEN "Unauthorized"
  ELSE IF ~\E p \in issued : /\ p.accessToken.sub = currentOwnerId
                             /\ p.accessToken.tenantId = tenantId
                             /\ p.accessToken.role = "OWNER"
       THEN "Forbidden"
  ELSE IF TenantUserOf(tenantId, newOwnerId) = {} THEN "NotFound"
  ELSE "ok"

\* transferOwnership up to its transaction: "ok", or the failure it throws
TransferOwnershipResult(tenantId, currentOwnerId, newOwnerId) ==
  IF verifyTenantAccess(tenantId, currentOwnerId) = {} THEN "Unauthorized"
  ELSE LET currentOwner ==
             CHOOSE tu \in verifyTenantAccess(tenantId, currentOwnerId) : TRUE IN
    IF currentOwner.role # "OWNER" THEN "Forbidden"
    ELSE IF TenantUserOf(tenantId, newOwnerId) = {} THEN "NotFound"
    ELSE "ok"

TransferOwnership(tenantId, currentOwnerId, newOwnerId) ==
  IF TransferOwnershipResult(tenantId, currentOwnerId, newOwnerId) # "ok"
  THEN TenantFail("transferOwnership",
                  TransferOwnershipResult(tenantId, currentOwnerId, newOwnerId),
                  tenantId, currentOwnerId, newOwnerId)
  ELSE LET currentOwner ==
             CHOOSE tu \in verifyTenantAccess(tenantId, currentOwnerId) : TRUE
           newOwner == CHOOSE tu \in TenantUserOf(tenantId, newOwnerId) : TRUE
       IN
    /\ tenantUsers' = TransferRows(tenantUsers, currentOwner.id, newOwner.id)
    /\ last' = TenantOutcome("transferOwnership", "ok", tenantId,
                             currentOwnerId, newOwnerId)
    /\ UNCHANGED <<users, tenants, passwordResets, ids, authVars>>

\* faulty variant: the owner may leave like any other member
LeaveTenantResult_OwnerLeaves(tenantId, userId) ==
  IF verifyTenantAccess(tenantId, userId) = {} THEN "Unauthorized" ELSE "ok"

\* leaveTenant up to its delete: "ok", or the failure it throws
LeaveTenantResult(tenantId, userId) ==
  IF verifyTenantAccess(tenantId, userId) = {} THEN "Unauthorized"
  ELSE LET member == CHOOSE tu \in verifyTenantAccess(tenantId, userId) : TRUE IN
    IF member.role = "OWNER" THEN "BadRequest" ELSE "ok"

LeaveTenant(tenantId, userId) ==
  IF LeaveTenantResult(tenantId, userId) # "ok"
  THEN TenantFail("leaveTenant", LeaveTenantResult(tenantId, userId),
                  tenantId, userId, userId)
  ELSE LET member == CHOOSE tu \in verifyTenantAccess(tenantId, userId) : TRUE IN
    /\ tenantUsers' = DeleteRow(tenantUsers, member.id)
    /\ last' = TenantOutcome("leaveTenant", "ok", tenantId, userId, userId)
    /\ UNCHANGED <<users, tenants, passwordResets, ids, authVars>>

\* ------------------------------------------------------------------------
\* Web API client (apps/web/src/api/client.ts): module state
\* ------------------------------------------------------------------------
MaxRequests == 3       \* requests the page sends through apiClient

ClientRequests == 1..MaxRequests

UNAUTHORIZED == 401

\* response statuses of a failed request: 401, and one that is not 401
ErrorStatuses == {UNAUTHORIZED, 500}

\* a request config not yet sent: no _retry mark
IdleRequest == [pc |-> "idle", retry |-> FALSE, token |-> 0]

\* isRefreshing, failedQueue, the two localStorage entries (0: no entry,
\* else the generation of the stored token) and the page's requests
ClientState(accessToken, refreshToken) ==
  [isRefreshing |-> FALSE, failedQueue |-> <<>>,
   accessToken |-> accessToken, refreshToken |-> refreshToken,
   requests |-> [r \in ClientRequests |-> IdleRequest]]

\* ------------------------------------------------------------------------
\* Initial state and the sequential specification of the auth handlers
\* ------------------------------------------------------------------------
Salts == {1}
TickSteps == {accessTokenExpiry, refreshTokenExpiry}
IdleCall == [op |-> "idle", pc |-> "idle", result |-> "none"]

Init ==
  /\ users = {}
  /\ tenants = {}
  /\ tenantUsers = {}
  /\ passwordResets = {}
  /\ redis = <<>>
  /\ now = 0
  /\ ticks = 0
  /\ ids = [user |-> 0, tenant |-> 0, row |-> 0, session |-> 0, reset |-> 0]
  /\ issued = {}
  /\ hist = [revoked |-> {}, consumed |-> {}, outdated |-> {}]
  /\ last = Outcome("init", "ok", NoId, NoId, {}, {})
  /\ calls = [p \in Procs |-> IdleCall]
  /\ client = ClientState(0, 0)

UserIds == {u.id : u \in users}

IssuedTokens == {p.accessToken : p \in issued} \cup {p.refreshToken : p \in issued}

\* Sessions: register, login, refresh, logout, logout-all, time
Next ==
  \/ \E e \in AuthEmails, s \in Salts : Register(e, "P@ssw0rd1", s)
  \/ \E e \in AuthEmails, pw \in Passwords : Login(e, pw, NoId)
  \/ \E tok \in IssuedTokens : RefreshToken(tok, NoId)
  \/ \E p \in issued : Logout(p.accessToken.sub, p.accessToken.sessionId)
  \/ \E u \in UserIds : LogoutAll(u)
  \/ \E tok \in IssuedTokens : JwtStrategyValidate(tok)
  \/ \E d \in TickSteps : Tick(d)

Spec == Init /\ [][Next]_vars

\* Passwords: register, login, refresh, change / forgot / reset password, time
NextPassword ==
  \/ \E e \in AuthEmails, s \in Salts : Register(e, "P@ssw0rd1", s)
  \/ \E e \in AuthEmails, pw \in Passwords : Login(e, pw, NoId)
  \/ \E tok \in IssuedTokens : RefreshToken(tok, NoId)
  \/ \E u \in UserIds, cur \in Passwords, s \in Salts :
       ChangePassword(u, cur, "N3w@pass", s)
  \/ \E e \in AuthEmails : ForgotPassword(e)
  \/ \E tok \in 1..MaxResets, s \in Salts : ResetPassword(tok, "N3w@pass", s)
  \/ \E d \in TickSteps : Tick(d)

SpecPassword == Init /\ [][NextPassword]_vars

\* ------------------------------------------------------------------------
\* AuthService.refreshToken call by call: one step per awaited store
\* operation, so that calls of different requests interleave
\* ------------------------------------------------------------------------
InFlight(p) == calls[p].pc \notin {"idle", "done"}

SetCall(p, c) == calls' = [calls EXCEPT ![p] = c]

Goto(p, pc) == SetCall(p, [calls[p] EXCEPT !.pc = pc])

Return(p, result) == SetCall(p, [calls[p] EXCEPT !.pc = "done", !.result = result])

\* a request arrives
RefreshBegin(p, token, dtoTenantId) ==
  /\ calls[p].pc = "idle"
  /\ SetCall(p, [op |-> "refreshToken", pc |-> "verify", token |-> token,
                 dtoTenantId |-> dtoTenantId, result |-> "pending",
                 user |-> {}, tenantId |-> NoId, pair |-> {},
                 fresh |-> verifyRefreshToken(redis, token, now) = "ok",
                 overlapped |-> \E q \in Procs \ {p} : InFlight(q)])
  /\ UNCHANGED <<dbVars, redis, now, ticks, client, ids, issued, hist, last>>

\* await tokenService.verifyRefreshToken(dto.refreshToken)
RefreshVerify(p) ==
  /\ calls[p].op = "refreshToken" /\ calls[p].pc = "verify"
  /\ IF verifyRefreshToken(redis, calls[p].token, now) = "ok"
     THEN Goto(p, "findUser")
     ELSE Return(p, verifyRefreshToken(redis, calls[p].token, now))
  /\ UNCHANGED <<dbVars, redis, now, ticks, client, ids, issued, hist, last>>

\* await prisma.user.findUnique(...), then "Determine tenant"
RefreshFindUser(p) ==
  /\ calls[p].op = "refreshToken" /\ calls[p].pc = "findUser"
  /\ LET c == calls[p]
         found == {u \in UserById(c.token.sub) : u.isActive}
     IN  IF found = {} THEN Return(p, "Unauthorized")
         ELSE LET user == CHOOSE u \in found : TRUE IN
              SetCall(p, [c EXCEPT !.pc = "revokeSession", !.user = {user},
                            !.tenantId = OrElse(c.dtoTenantId,
                                           OrElse(c.token.tenantId,
                                                  user.defaultTenantId))])
  /\ UNCHANGED <<dbVars, redis, now, ticks, client, ids, issued, hist, last>>

\* await tokenService.revokeSession(payload.sessionId)
RefreshRevokeSession(p) ==
  /\ calls[p].op = "refreshToken" /\ calls[p].pc = "revokeSession"
  /\ redis' = revokeSession(redis, calls[p].token.sessionId)
  /\ hist' = [hist EXCEPT !.revoked = @ \cup {calls[p].token.sessionId}]
  /\ Goto(p, "revokeRefreshToken")
  /\ UNCHANGED <<dbVars, now, ticks, client, ids, issued, last>>

\* await tokenService.revokeRefreshToken(dto.refreshToken)
RefreshRevokeRefreshToken(p) ==
  /\ calls[p].op = "refreshToken" /\ calls[p].pc = "revokeRefreshToken"
  /\ redis' = revokeRefreshToken(redis, calls[p].token)
  /\ Goto(p, "storeSession")
  /\ UNCHANGED <<dbVars, now, ticks, client, ids, issued, hist, last>>

\* generateTokens up to await storeSession(...)
RefreshStoreSession(p) ==
  /\ calls[p].op = "refreshToken" /\ calls[p].pc = "storeSession"
  /\ LET c == calls[p]
         user == CHOOSE u \in c.user : TRUE
         ctx == TenantContext(user.id, c.tenantId)
         sid == NextSessionId
         pair == generateTokensPair(user.id, user.email, c.tenantId, ctx.role,
                                    ctx.permissions, sid, now)
     IN  /\ redis' = storeSession(redis, sid,
                        [userId |-> user.id, tenantId |-> c.tenantId,
                         sessionId |-> sid,
                         expiresAt |-> now + refreshTokenExpiry], now)
         /\ SetCall(p, [c EXCEPT !.pc = "storeRefreshToken", !.pair = {pair}])
  /\ ids' = [ids EXCEPT !.session = @ + 1]
  /\ UNCHANGED <<dbVars, now, ticks, client, issued, hist, last>>

\* generateTokens: await storeRefreshToken(...)
RefreshStoreRefreshToken(p) ==
  /\ calls[p].op = "refreshToken" /\ calls[p].pc = "storeRefreshToken"
  /\ LET pair == CHOOSE x \in calls[p].pair : TRUE
     IN  redis' = storeRefreshToken(redis, pair.refreshToken,
                                    pair.refreshToken.sub,
                                    pair.refreshToken.sessionId, now)
  /\ Goto(p, "getAuthUser")
  /\ UNCHANGED <<dbVars, now, ticks, client, ids, issued, hist, last>>

\* await getAuthUser(user.id), and the response goes out
RefreshReturn(p) ==
  /\ calls[p].op = "refreshToken" /\ calls[p].pc = "getAuthUser"
  /\ Return(p, "ok")
  /\ issued' = issued \cup calls[p].pair
  /\ hist' = [hist EXCEPT !.consumed = @ \cup {calls[p].token}]
  /\ last' = Outcome("refreshToken", "ok", calls[p].token.sub,
                     calls[p].token.sessionId, {calls[p].token}, calls[p].pair)
  /\ UNCHANGED <<dbVars, redis, now, ticks, client, ids>>

IssuedRefreshTokens == {p.refreshToken : p \in issued}

NextRefresh ==
  \/ \E s \in Salts : Register("a@x.com", "P@ssw0rd1", s)
  \/ \E p \in Procs, tok \in IssuedRefreshTokens : RefreshBegin(p, tok, NoId)
  \/ \E p \in Procs : RefreshVerify(p)
  \/ \E p \in Procs : RefreshFindUser(p)
  \/ \E p \in Procs : RefreshRevokeSession(p)
  \/ \E p \in Procs : RefreshRevokeRefreshToken(p)
  \/ \E p \in Procs : RefreshStoreSession(p)
  \/ \E p \in Procs : RefreshStoreRefreshToken(p)
  \/ \E p \in Procs : RefreshReturn(p)

SpecRefresh == Init /\ [][NextRefresh]_vars

\* C2: of two concurrent refreshToken calls that present the same refresh
\* token, issued and not consumed when they arrive, exactly one succeeds
\* and the other fails with InvalidToken.
C2_ExactlyOneRefreshWins ==
  \A p, q \in Procs :
    (/\ p # q
     /\ calls[p].pc = "done" /\ calls[q].pc = "done"
     /\ calls[p].op = "refreshToken" /\ calls[q].op = "refreshToken"
     /\ calls[p].token = calls[q].token
     /\ calls[p].fresh
     /\ calls[q].overlapped)
    => /\ "ok" \in {calls[p].result, calls[q].result}
       /\ "InvalidToken" \in {calls[p].result, calls[q].result}

\* ------------------------------------------------------------------------
\* Properties of the sessions specification
\* ------------------------------------------------------------------------
RefreshReturned == last' # last /\ last'.op = "refreshToken"

\* C1: refresh tokens are single-use. Once a refreshToken call has succeeded
\* with a raw refresh token, every later refreshToken call presenting the
\* same string fails with InvalidToken: the call returns InvalidToken, and
\* from the moment the token is consumed its verification is refused.
C1_SingleUse ==
  [][/\ \A tok \in hist.consumed :
          (RefreshReturned /\ last'.token = {tok})
            => last'.result = "InvalidToken"
     /\ \A tok \in hist'.consumed :
          verifyRefreshToken(redis', tok, now') = "InvalidToken"]_vars

\* C1 witness: a replay of a consumed, still unexpired refresh token was
\* answered with InvalidToken.
C1_Witness ==
  /\ last.op = "refreshToken"
  /\ last.result = "InvalidToken"
  /\ last.token \subseteq hist.consumed
  /\ \A tok \in last.token : jwtVerify(tok, JWT_REFRESH_SECRET, now)

\* C3: an access token returned by generateTokens verifies while its TTL
\* has not elapsed and its session has not been revoked, and fails with
\* SessionExpired, its signature still valid, once the session is revoked.
C3_AccessTokenLifecycle ==
  \A p \in issued :
    LET a == p.accessToken IN
    /\ (now < a.exp /\ a.sessionId \notin hist.revoked)
         => verifyAccessToken(redis, a, now) = "ok"
    /\ (now < a.exp /\ a.sessionId \in hist.revoked)
         => /\ jwtVerify(a, JWT_SECRET, now)
            /\ verifyAccessToken(redis, a, now) = "SessionExpired"
            /\ (last.op = "validate" /\ last.token = {a})
                 => last.result = "SessionExpired"

\* C3 witness: one issued token of a revoked session is refused with
\* SessionExpired while another, unrevoked one still verifies.
C3_Witness ==
  /\ \E p \in issued : /\ p.accessToken.sessionId \in hist.revoked
                       /\ verifyAccessToken(redis, p.accessToken, now) = "SessionExpired"
  /\ \E p \in issued : /\ p.accessToken.sessionId \notin hist.revoked
                       /\ verifyAccessToken(redis, p.accessToken, now) = "ok"

\* C6: refreshToken accepts a refresh token only while the session named by
\* its sessionId still exists in the session store.
C6_RefreshNeedsLiveSession ==
  [][(RefreshReturned /\ last'.result = "ok")
       => isSessionValid(redis, last'.sessionId, now)]_vars

\* C7: refresh rotation. After a successful refreshToken the session and the
\* refresh record of the presented token are gone (its access token and the
\* token itself are refused), and exactly one new session with one new
\* refresh record has been created.
C7_Rotation ==
  [][(RefreshReturned /\ last'.result = "ok") =>
       \A tok \in last'.token : \A pair \in last'.tokens :
         /\ ~isSessionValid(redis', tok.sessionId, now')
         /\ ~isRefreshTokenValid(redis', tok, now')
         /\ verifyRefreshToken(redis', tok, now') = "InvalidToken"
         /\ \A p \in issued : p.refreshToken = tok
              => verifyAccessToken(redis', p.accessToken, now') # "ok"
         /\ DOMAIN redis' \ DOMAIN redis =
              {Prefixed(SessionKey(pair.accessToken.sessionId)),
               Prefixed(RefreshKey(pair.refreshToken))}
         /\ redisGet(redis', RefreshKey(pair.refreshToken)).sessionId
              = pair.accessToken.sessionId
         /\ verifyAccessToken(redis', pair.accessToken, now') = "ok"
         /\ verifyRefreshToken(redis', pair.refreshToken, now') = "ok"]_vars

\* C7 witness: a refreshToken call has succeeded and minted a new pair.
C7_Witness ==
  /\ last.op = "refreshToken"
  /\ last.result = "ok"
  /\ \A tok \in last.token : ~isRefreshTokenValid(redis, tok, now)
  /\ \A pair \in last.tokens : isSessionValid(redis, pair.accessToken.sessionId, now)

\* ------------------------------------------------------------------------
\* Properties of the passwords specification
\* ------------------------------------------------------------------------
PasswordChanged ==
  /\ last.op \in {"changePassword", "resetPassword"}
  /\ last.result = "ok"

\* C4: changePassword and resetPassword invalidate every previously issued
\* session of the user: once either has returned, no access token minted
\* for that user before the change verifies.
C4_PasswordChangeRevokesSessions ==
  PasswordChanged =>
    \A p \in issued : p.accessToken.sub = last.userId
      => verifyAccessToken(redis, p.accessToken, now) # "ok"

\* C5: a password change invalidates every outstanding refresh token: no
\* refreshToken call succeeds with a refresh token issued to the user before
\* a successful changePassword or resetPassword.
C5_PasswordChangeRevokesRefresh ==
  [][(RefreshReturned /\ last'.result = "ok")
       => last'.token \cap hist.outdated = {}]_vars

\* ------------------------------------------------------------------------
\* Tenant memberships: the handlers one after the other
\* ------------------------------------------------------------------------
\* the roles sent in requests: GUEST passes and fails every guard of the
\* service as MEMBER does
RequestRoles == TenantRole \ {"GUEST"}

\* the bodies sent to PUT /tenants/members/:userId: a role, or an active flag
UpdateDtos ==
  {[role |-> {r}, isActive |-> {}] : r \in RequestRoles} \cup
  {[role |-> {}, isActive |-> {b}] : b \in BOOLEAN}

NextTenant ==
  \/ \E s \in Salts : Register("a@x.com", "P@ssw0rd1", s)
  \/ \E t \in tenants, u \in UserIds, e \in InviteEmails, r \in RequestRoles :
       InviteUser(t, u, e, r, {})
  \/ \E u \in UserIds : AcceptInvitation(u)
  \/ \E t \in tenants, u \in UserIds, m \in UserIds, dto \in UpdateDtos :
       UpdateMember(t, u, m, dto.role, {}, dto.isActive)
  \/ \E t \in tenants, u \in UserIds, m \in UserIds : RemoveMember(t, u, m)
  \/ \E t \in tenants, u \in UserIds, m \in UserIds : TransferOwnership(t, u, m)
  \/ \E t \in tenants, u \in UserIds : LeaveTenant(t, u)

SpecTenant == Init /\ [][NextTenant]_vars

RowsOf(tenantId) == {tu \in tenantUsers : tu.tenantId = tenantId}

OwnersOf(tenantId) == {tu \in RowsOf(tenantId) : tu.role = "OWNER"}

\* C8: every tenant that has a membership has exactly one membership with
\* role OWNER.
C8_ExactlyOneOwner ==
  \A t \in tenants : RowsOf(t) # {} => Cardinality(OwnersOf(t)) = 1

\* C9: a successful transferOwnership(tenantId, A, B) to another member B
\* leaves exactly one OWNER membership, B's, and A with role ADMIN.
C9_TransferLeavesOneOwner ==
  (/\ last.op = "transferOwnership"
   /\ last.result = "ok"
   /\ last.targetId # last.userId)
  => /\ {tu.userId : tu \in OwnersOf(last.tenantId)} = {last.targetId}
     /\ \A tu \in TenantUserOf(last.tenantId, last.userId) : tu.role = "ADMIN"

\* ------------------------------------------------------------------------
\* TenantService.transferOwnership, removeMember and leaveTenant call by
\* call: one step per awaited query, so that calls of different requests
\* interleave. The $transaction is one step: its two updates commit together
\* (a writer that reaches a row the transaction has updated waits for the
\* commit), and an update or delete of a row that no longer exists throws,
\* which rolls the transaction back.
\* ------------------------------------------------------------------------
HasRow(id) == \E tu \in tenantUsers : tu.id = id

TenantBegin(p, op, tenantId, userId, targetId) ==
  /\ calls[p].pc = "idle"
  /\ SetCall(p, [op |-> op, pc |-> "verifyTenantAccess", tenantId |-> tenantId,
                 userId |-> userId, targetId |-> targetId, result |-> "pending",
                 caller |-> {}, member |-> {}])
  /\ UNCHANGED <<dbVars, redis, now, ticks, client, ids, issued, hist, last>>

\* const currentOwner = await this.verifyTenantAccess(tenantId, currentOwnerId)
TransferVerifyAccess(p) ==
  /\ calls[p].op = "transferOwnership" /\ calls[p].pc = "verifyTenantAccess"
  /\ LET c == calls[p]
         found == verifyTenantAccess(c.tenantId, c.userId)
     IN  IF found = {} THEN Return(p, "Unauthorized")
         ELSE IF \E tu \in found : tu.role # "OWNER" THEN Return(p, "Forbidden")
         ELSE SetCall(p, [c EXCEPT !.pc = "findNewOwner", !.caller = found])
  /\ UNCHANGED <<dbVars, redis, now, ticks, client, ids, issued, hist, last>>

\* const newOwner = await this.prisma.tenantUser.findUnique(...)
TransferFindNewOwner(p) ==
  /\ calls[p].op = "transferOwnership" /\ calls[p].pc = "findNewOwner"
  /\ LET c == calls[p]
         found == TenantUserOf(c.tenantId, c.targetId)
     IN  IF found = {} THEN Return(p, "NotFound")
         ELSE SetCall(p, [c EXCEPT !.pc = "transaction", !.member = found])
  /\ UNCHANGED <<dbVars, redis, now, ticks, client, ids, issued, hist, last>>

\* await this.prisma.$transaction(...): demote by id, promote by id
TransferTransaction(p) ==
  /\ calls[p].op = "transferOwnership" /\ calls[p].pc = "transaction"
  /\ LET currentOwner == CHOOSE tu \in calls[p].caller : TRUE
         newOwner == CHOOSE tu \in calls[p].member : TRUE
     IN  IF HasRow(currentOwner.id) /\ HasRow(newOwner.id)
         THEN /\ tenantUsers' = TransferRows(tenantUsers, currentOwner.id,
                                             newOwner.id)
              /\ Return(p, "ok")
         ELSE /\ UNCHANGED tenantUsers
              /\ Return(p, "RecordNotFound")
  /\ UNCHANGED <<users, tenants, passwordResets, redis, now, ticks, client, ids, issued,
                 hist, last>>

\* const remover = await this.verifyTenantAccess(tenantId, removerId)
RemoveVerifyAccess(p) ==
  /\ calls[p].op = "removeMember" /\ calls[p].pc = "verifyTenantAccess"
  /\ LET c == calls[p]
         found == verifyTenantAccess(c.tenantId, c.userId)
     IN  IF found = {} THEN Return(p, "Unauthorized")
         ELSE IF \E tu \in found : tu.role \notin {"OWNER", "ADMIN"}
         THEN Return(p, "Forbidden")
         ELSE SetCall(p, [c EXCEPT !.pc = "findMember", !.caller = found])
  /\ UNCHANGED <<dbVars, redis, now, ticks, client, ids, issued, hist, last>>

\* const member = await this.prisma.tenantUser.findUnique(...), and the checks
RemoveFindMember(p) ==
  /\ calls[p].op = "removeMember" /\ calls[p].pc = "findMember"
  /\ LET c == calls[p]
         remover == CHOOSE tu \in c.caller : TRUE
         found == TenantUserOf(c.tenantId, c.targetId)
     IN  IF found = {} THEN Return(p, "NotFound")
         ELSE IF \E tu \in found : tu.role = "OWNER" THEN Return(p, "BadRequest")
         ELSE IF c.userId = c.targetId /\ remover.role = "ADMIN"
         THEN Return(p, "BadRequest")
         ELSE SetCall(p, [c EXCEPT !.pc = "delete", !.member = found])
  /\ UNCHANGED <<dbVars, redis, now, ticks, client, ids, issued, hist, last>>

\* const member = await this.verifyTenantAccess(tenantId, userId), and the check
LeaveVerifyAccess(p) ==
  /\ calls[p].op = "leaveTenant" /\ calls[p].pc = "verifyTenantAccess"
  /\ LET c == calls[p]
         found == verifyTenantAccess(c.tenantId, c.userId)
     IN  IF found = {} THEN Return(p, "Unauthorized")
         ELSE IF \E tu \in found : tu.role = "OWNER" THEN Return(p, "BadRequest")
         ELSE SetCall(p, [c EXCEPT !.pc = "delete", !.member = found])
  /\ UNCHANGED <<dbVars, redis, now, ticks, client, ids, issued, hist, last>>

\* await this.prisma.tenantUser.delete({ where: { id: member.id } })
MemberDelete(p) ==
  /\ calls[p].op \in {"removeMember", "leaveTenant"} /\ calls[p].pc = "delete"
  /\ LET member == CHOOSE tu \in calls[p].member : TRUE
     IN  IF HasRow(member.id)
         THEN /\ tenantUsers' = DeleteRow(tenantUsers, member.id)
              /\ Return(p, "ok")
         ELSE /\ UNCHANGED tenantUsers
              /\ Return(p, "RecordNotFound")
  /\ UNCHANGED <<users, tenants, passwordResets, redis, now, ticks, client, ids, issued,
                 hist, last>>

\* the roles an invitation carries here: none of them OWNER, so that between
\* calls the tenant has the one OWNER that register created
InvitedRoles == {"ADMIN", "MEMBER"}

\* the tenant is set up before the concurrent requests arrive
NoCallYet == \A p \in Procs : calls[p].pc = "idle"

NextTransfer ==
  \/ \E s \in Salts : NoCallYet /\ Register("a@x.com", "P@ssw0rd1", s)
  \/ \E t \in tenants, u \in UserIds, e \in InviteEmails, r \in InvitedRoles :
       NoCallYet /\ InviteUser(t, u, e, r, {})
  \/ \E u \in UserIds : NoCallYet /\ AcceptInvitation(u)
  \/ \E p \in Procs, t \in tenants, u \in UserIds, m \in UserIds :
       TenantBegin(p, "transferOwnership", t, u, m)
  \/ \E p \in Procs, t \in tenants, u \in UserIds, m \in UserIds :
       TenantBegin(p, "removeMember", t, u, m)
  \/ \E p \in Procs, t \in tenants, u \in UserIds :
       TenantBegin(p, "leaveTenant", t, u, u)
  \/ \E p \in Procs : TransferVerifyAccess(p)
  \/ \E p \in Procs : TransferFindNewOwner(p)
  \/ \E p \in Procs : TransferTransaction(p)
  \/ \E p \in Procs : RemoveVerifyAccess(p)
  \/ \E p \in Procs : RemoveFindMember(p)
  \/ \E p \in Procs : LeaveVerifyAccess(p)
  \/ \E p \in Procs : MemberDelete(p)

SpecTransfer == Init /\ [][NextTransfer]_vars

\* C10: when the concurrent transferOwnership, removeMember and leaveTenant
\* calls have all returned, every tenant that has a membership has exactly
\* one membership with role OWNER.
C10_OneOwnerAfterConcurrentWriters ==
  (\A p \in Procs : ~InFlight(p))
  => \A t \in tenants : RowsOf(t) # {} => Cardinality(OwnersOf(t)) = 1

\* ------------------------------------------------------------------------
\* AuthService.register call by call: one step per awaited query. The rows
\* created through the transaction client tx stay with the call until the
\* transaction commits; a unique-index violation throws and rolls it back.
\* ------------------------------------------------------------------------
NoTx == [tenants |-> {}, users |-> {}, tenantUsers |-> {}]

\* faulty variant: the create goes through the plain client and is seen at once
BeforeCommit_Autocommit(rows) == rows

\* the rows of an open transaction that other connections see: none
BeforeCommit(rows) == {}

RegisterBegin(p, email, password, salt) ==
  /\ calls[p].pc = "idle"
  /\ SetCall(p, [op |-> "register", pc |-> "findExisting", email |-> email,
                 password |-> password, salt |-> salt, result |-> "pending",
                 tx |-> NoTx, pair |-> {}])
  /\ UNCHANGED <<dbVars, redis, now, ticks, client, ids, issued, hist, last>>

\* const existingUser = await this.prisma.user.findUnique({ where: { email } })
RegisterFindExisting(p) ==
  /\ calls[p].op = "register" /\ calls[p].pc = "findExisting"
  /\ IF UserByEmail(calls[p].email) # {} THEN Return(p, "Conflict")
     ELSE Goto(p, "createTenant")
  /\ UNCHANGED <<dbVars, redis, now, ticks, client, ids, issued, hist, last>>

\* await tx.tenant.create(...)
RegisterTxCreateTenant(p) ==
  /\ calls[p].op = "register" /\ calls[p].pc = "createTenant"
  /\ LET tenantId == ids.tenant + 1
     IN  /\ SetCall(p, [calls[p] EXCEPT !.pc = "createUser",
                                        !.tx.tenants = {tenantId}])
         /\ tenants' = tenants \cup BeforeCommit({tenantId})
  /\ ids' = [ids EXCEPT !.tenant = @ + 1]
  /\ UNCHANGED <<users, tenantUsers, passwordResets, redis, now, ticks, client, issued,
                 hist, last>>

\* an insert of the same email by an open transaction holds this one back
EmailHeldBy(p, email) ==
  \E q \in Procs \ {p} :
    /\ calls[q].op = "register" /\ InFlight(q)
    /\ \E u \in calls[q].tx.users : u.email = email

\* await tx.user.create(...): users_email_key decides
RegisterTxCreateUser(p) ==
  /\ calls[p].op = "register" /\ calls[p].pc = "createUser"
  /\ ~EmailHeldBy(p, calls[p].email)
  /\ LET c == calls[p]
         tenantId == CHOOSE t \in c.tx.tenants : TRUE
         user == [id |-> ids.user + 1, email |-> c.email,
                  passwordHash |-> bcryptHash(c.password, c.salt),
                  isActive |-> TRUE, isVerified |-> FALSE,
                  defaultTenantId |-> tenantId]
     IN  IF UserByEmail(c.email) # {}
         THEN /\ SetCall(p, [c EXCEPT !.pc = "done", !.tx = NoTx,
                                      !.result = "UniqueConstraint"])
              /\ UNCHANGED <<users, ids>>
         ELSE /\ SetCall(p, [c EXCEPT !.pc = "createTenantUser",
                                      !.tx.users = {user}])
              /\ users' = users \cup BeforeCommit({user})
              /\ ids' = [ids EXCEPT !.user = @ + 1]
  /\ UNCHANGED <<tenants, tenantUsers, passwordResets, redis, now, ticks, client,
                 issued, hist, last>>

\* await tx.tenantUser.create(...)
RegisterTxCreateTenantUser(p) ==
  /\ calls[p].op = "register" /\ calls[p].pc = "createTenantUser"
  /\ LET c == calls[p]
         tenantId == CHOOSE t \in c.tx.tenants : TRUE
         user == CHOOSE u \in c.tx.users : TRUE
         tu == OwnerMembership(ids.row + 1, tenantId, user.id)
     IN  /\ SetCall(p, [c EXCEPT !.pc = "commit", !.tx.tenantUsers = {tu}])
         /\ tenantUsers' = tenantUsers \cup BeforeCommit({tu})
  /\ ids' = [ids EXCEPT !.row = @ + 1]
  /\ UNCHANGED <<users, tenants, passwordResets, redis, now, ticks, client, issued,
                 hist, last>>

\* the callback returns and $transaction commits
RegisterTxCommit(p) ==
  /\ calls[p].op = "register" /\ calls[p].pc = "commit"
  /\ tenants' = tenants \cup calls[p].tx.tenants
  /\ users' = users \cup calls[p].tx.users
  /\ tenantUsers' = tenantUsers \cup calls[p].tx.tenantUsers
  /\ Goto(p, "generateTokens")
  /\ UNCHANGED <<passwordResets, redis, now, ticks, client, ids, issued, hist, last>>

\* await generateTokens(...), await getAuthUser(...), and the response goes out
RegisterGenerateTokens(p) ==
  /\ calls[p].op = "register" /\ calls[p].pc = "generateTokens"
  /\ LET c == calls[p]
         user == CHOOSE u \in c.tx.users : TRUE
         sid == NextSessionId
         pair == generateTokensPair(user.id, user.email, user.defaultTenantId,
                                    "OWNER", <<>>, sid, now)
     IN  /\ redis' = generateTokensStore(redis, user.id, user.defaultTenantId,
                                         sid, pair.refreshToken, now)
         /\ issued' = issued \cup {pair}
         /\ SetCall(p, [c EXCEPT !.pc = "done", !.result = "ok",
                                 !.pair = {pair}])
  /\ ids' = [ids EXCEPT !.session = @ + 1]
  /\ UNCHANGED <<dbVars, now, ticks, client, hist, last>>

NextRegister ==
  \/ \E p \in Procs, e \in AuthEmails, pw \in Passwords, s \in Salts :
       RegisterBegin(p, e, pw, s)
  \/ \E p \in Procs : RegisterFindExisting(p)
  \/ \E p \in Procs : RegisterTxCreateTenant(p)
  \/ \E p \in Procs : RegisterTxCreateUser(p)
  \/ \E p \in Procs : RegisterTxCreateTenantUser(p)
  \/ \E p \in Procs : RegisterTxCommit(p)
  \/ \E p \in Procs : RegisterGenerateTokens(p)

SpecRegister == Init /\ [][NextRegister]_vars

\* ------------------------------------------------------------------------
\* Properties of register
\* ------------------------------------------------------------------------
\* C11: immediately after a successful register the tenant it created has
\* exactly one Membership with role OWNER: the registering user's, active.
C11_RegisterCreatesOneOwner ==
  (last.op = "register" /\ last.result = "ok") =>
    \A pair \in last.tokens :
      /\ Cardinality(OwnersOf(pair.accessToken.tenantId)) = 1
      /\ \A tu \in OwnersOf(pair.accessToken.tenantId) :
           tu.userId = last.userId /\ tu.isActive

\* C11 witness: a second registration has returned, and both tenants have
\* their owner.
C11_Witness ==
  /\ last.op = "register" /\ last.result = "ok"
  /\ Cardinality(tenants) = 2
  /\ \A t \in tenants : OwnersOf(t) # {}

\* the rows of the registration that created tenant t, as a reader finds them
RegistrationRows(t) ==
  [tenant |-> {t} \cap tenants,
   user |-> {u \in users : u.defaultTenantId = t},
   owner |-> {tu \in tenantUsers : tu.tenantId = t /\ tu.role = "OWNER"}]

\* C12: register is atomic. In every state, also while register calls with
\* the same email overlap and after one of them has failed inside the
\* transaction, the Tenant, User and OWNER Membership rows of a registration
\* all exist or none does, no email has two users, and every tenant has its
\* owner.
C12_RegisterAtomic ==
  /\ \A t \in 1..ids.tenant :
       LET r == RegistrationRows(t)
       IN  \/ r.tenant = {} /\ r.user = {} /\ r.owner = {}
           \/ /\ r.tenant # {} /\ Cardinality(r.user) = 1
              /\ Cardinality(r.owner) = 1
              /\ \A u \in r.user : \A tu \in r.owner : tu.userId = u.id
  /\ \A u, v \in users : u.email = v.email => u = v
  /\ \A t \in tenants : OwnersOf(t) # {}

\* C12 witness: of two overlapping register calls with one email, one has
\* succeeded and the other was thrown out of its transaction after its
\* tenant insert; one registration is in the tables.
C12_Witness ==
  /\ \E p, q \in Procs :
       /\ calls[p].op = "register" /\ calls[p].result = "ok"
       /\ calls[q].op = "register" /\ calls[q].result = "UniqueConstraint"
       /\ calls[p].email = calls[q].email
  /\ Cardinality(tenants) = 1
  /\ ids.tenant = 2

\* ------------------------------------------------------------------------
\* Tenant context of a session: login with a tenant id, switchTenant
\* ------------------------------------------------------------------------
TenantIds == 0..MaxTenants

ContextRoles == {"ADMIN", "MEMBER"}

ContextPermissions == {<<"billing">>}

NextContext ==
  \/ \E e \in AuthEmails, s \in Salts : Register(e, "P@ssw0rd1", s)
  \/ \E e \in AuthEmails, t \in TenantIds : Login(e, "P@ssw0rd1", t)
  \/ \E t \in tenants, u \in UserIds, r \in ContextRoles :
       InviteUser(t, u, "b@x.com", r, ContextPermissions)
  \/ \E u \in UserIds : AcceptInvitation(u)
  \/ \E t \in tenants, u \in UserIds, m \in UserIds, b \in BOOLEAN :
       UpdateMember(t, u, m, {}, {}, {b})
  \/ \E u \in UserIds, t \in TenantIds \ {NoId} : SwitchTenant(u, t)

SpecContext == Init /\ [][NextContext]_vars

\* C13: the tenant context that login puts in the token is that of an active
\* membership of the user: a tenantId in which the user has no active
\* membership is never placed in the token, and role and permissions are the
\* membership's.
C13_LoginTenantContext ==
  (last.op = "login" /\ last.result = "ok") =>
    \A pair \in last.tokens :
      LET a == pair.accessToken IN
      a.tenantId # NoId =>
        \E tu \in ActiveTenantUsers(a.sub) :
          /\ tu.tenantId = a.tenantId
          /\ tu.role = a.role
          /\ tu.permissions = a.permissions

SwitchReturned == last' # last /\ last'.op = "switchTenant"

\* C14: switchTenant(userId, tenantId) fails with Unauthorized and mints
\* nothing unless an active Membership exists for (tenantId, userId); on
\* success it creates one new session, scoped to that tenant with the
\* membership's role and permissions, and every token that verified before
\* the call still verifies.
C14_SwitchTenant ==
  [][SwitchReturned =>
       IF \A tu \in tenantUsers :
            ~(tu.tenantId = last'.tenantId /\ tu.userId = last'.userId
              /\ tu.isActive)
       THEN /\ last'.result = "Unauthorized"
            /\ last'.tokens = {}
            /\ redis' = redis
            /\ issued' = issued
       ELSE /\ last'.result = "ok"
            /\ Cardinality(last'.tokens) = 1
            /\ \A pair \in last'.tokens :
                 /\ pair \notin issued
                 /\ pair.accessToken.sub = last'.userId
                 /\ pair.accessToken.tenantId = last'.tenantId
                 /\ \E tu \in TenantUserOf(last'.tenantId, last'.userId) :
                      /\ tu.role = pair.accessToken.role
                      /\ tu.permissions = pair.accessToken.permissions
                 /\ verifyAccessToken(redis', pair.accessToken, now') = "ok"
                 /\ DOMAIN redis' \ DOMAIN redis =
                      {Prefixed(SessionKey(pair.accessToken.sessionId)),
                       Prefixed(RefreshKey(pair.refreshToken))}
            /\ \A q \in issued :
                 /\ verifyAccessToken(redis', q.accessToken, now')
                      = verifyAccessToken(redis, q.accessToken, now)
                 /\ verifyRefreshToken(redis', q.refreshToken, now')
                      = verifyRefreshToken(redis, q.refreshToken, now)]_vars

\* C14 witness: a user has switched into a tenant they were invited to, and
\* the access token of their earlier session, scoped to their own tenant,
\* still verifies.
C14_Witness ==
  /\ last.op = "switchTenant" /\ last.result = "ok"
  /\ \E q \in issued :
       /\ q \notin last.tokens
       /\ q.accessToken.sub = last.userId
       /\ q.accessToken.tenantId # last.tenantId
       /\ verifyAccessToken(redis, q.accessToken, now) = "ok"
  /\ \E tu \in tenantUsers : ~tu.isActive

\* ------------------------------------------------------------------------
\* Properties of logout and logoutAll
\* ------------------------------------------------------------------------
LogoutReturned == last' # last /\ last'.op = "logout"

\* C15: logout(userId, sessionId) revokes exactly that session. Afterwards
\* the access token of that session fails verification; every other session,
\* of the same user and of other users, is unchanged and verifies as before.
C15_LogoutExactlyThatSession ==
  [][LogoutReturned =>
       /\ \A q \in issued :
            IF q.accessToken.sessionId = last'.sessionId
            THEN verifyAccessToken(redis', q.accessToken, now') # "ok"
            ELSE verifyAccessToken(redis', q.accessToken, now')
                   = verifyAccessToken(redis, q.accessToken, now)
       /\ DOMAIN redis \ DOMAIN redis'
            \subseteq {Prefixed(SessionKey(last'.sessionId))}
       /\ \A k \in DOMAIN redis' : k \in DOMAIN redis /\ redis'[k] = redis[k]]_vars

\* C15 witness: after a logout the token of the closed session is refused,
\* its signature still valid, while another session still verifies.
C15_Witness ==
  /\ last.op = "logout"
  /\ \E q \in issued :
       /\ q.accessToken.sessionId = last.sessionId
       /\ jwtVerify(q.accessToken, JWT_SECRET, now)
       /\ verifyAccessToken(redis, q.accessToken, now) = "SessionExpired"
  /\ \E q \in issued :
       /\ q.accessToken.sessionId # last.sessionId
       /\ verifyAccessToken(redis, q.accessToken, now) = "ok"

\* C16: logoutAll(userId) revokes every session of the user. Once it has
\* returned no access token issued to that user verifies, and the sessions
\* of the other users are all still there.
C16_LogoutAllRevokesEverySession ==
  last.op = "logoutAll" =>
    \A q \in issued :
      IF q.accessToken.sub = last.userId
      THEN verifyAccessToken(redis, q.accessToken, now) # "ok"
      ELSE q.accessToken.sessionId \notin hist.revoked /\ now < q.accessToken.exp
             => verifyAccessToken(redis, q.accessToken, now) = "ok"

\* ------------------------------------------------------------------------
\* Properties of the membership guards
\* ------------------------------------------------------------------------
\* the role under which userId acts in the tenant: that of an active membership
ActiveRoleOf(tenantId, userId) ==
  {tu.role : tu \in {r \in tenantUsers : /\ r.tenantId = tenantId
                                         /\ r.userId = userId
                                         /\ r.isActive}}

TargetIsOwner(tenantId, userId) ==
  \E tu \in tenantUsers :
    tu.tenantId = tenantId /\ tu.userId = userId /\ tu.role = "OWNER"

\* a call of the handler has returned with this step
TenantReturned(op) == last' # last /\ last'.op = op

\* every OWNER membership is still there, with its role
OwnersKept ==
  \A tu \in tenantUsers :
    tu.role = "OWNER" => \E tv \in tenantUsers' : tv.id = tu.id /\ tv.role = "OWNER"

\* C17 as stated: removeMember on a membership with role OWNER fails with
\* BadRequest, whoever calls.
C17_Original ==
  \A t \in tenants, u \in UserIds, m \in UserIds :
    TargetIsOwner(t, m) => RemoveMemberResult(t, u, m) = "BadRequest"

\* C17 amended: removeMember on a membership with role OWNER always fails:
\* with BadRequest when the caller is an active OWNER or ADMIN of the tenant,
\* with Unauthorized when the caller has no active membership and Forbidden
\* otherwise; no removeMember call deletes an OWNER membership.
C17_RemoveOwnerRefused ==
  /\ [](\A t \in tenants, u \in UserIds, m \in UserIds :
          TargetIsOwner(t, m) =>
            RemoveMemberResult(t, u, m) =
              IF ActiveRoleOf(t, u) = {} THEN "Unauthorized"
              ELSE IF ActiveRoleOf(t, u) \cap {"OWNER", "ADMIN"} = {}
                   THEN "Forbidden"
              ELSE "BadRequest")
  /\ [][TenantReturned("removeMember") => OwnersKept]_vars

\* C17 witness: a removeMember call aimed at the OWNER was answered with
\* BadRequest (no ADMIN exists, so it was not an admin removing themself).
C17_Witness ==
  /\ last.op = "removeMember" /\ last.result = "BadRequest"
  /\ \A tu \in tenantUsers : tu.role # "ADMIN"
  /\ \E tu \in tenantUsers : tu.role = "OWNER"

\* a failed call of the handler has left the memberships as they were
FailureChangesNothing(op) ==
  (TenantReturned(op) /\ last'.result # "ok") => tenantUsers' = tenantUsers

\* C18 as stated: updateMember that would change the role of an OWNER
\* membership to a non-OWNER role fails with BadRequest, whoever calls.
C18_Original ==
  \A t \in tenants, u \in UserIds, m \in UserIds, r \in TenantRole \ {"OWNER"} :
    TargetIsOwner(t, m) => UpdateMemberResult(t, u, m, {r}) = "BadRequest"

\* C18 amended: updateMember that would change the role of a membership
\* currently OWNER to a non-OWNER role always fails and leaves the membership
\* unchanged: with BadRequest when the caller is an active OWNER or ADMIN of
\* the tenant, with Unauthorized when the caller has no active membership
\* and Forbidden otherwise.
C18_OwnerRoleNotChanged ==
  /\ [](\A t \in tenants, u \in UserIds, m \in UserIds,
           r \in TenantRole \ {"OWNER"} :
          TargetIsOwner(t, m) =>
            UpdateMemberResult(t, u, m, {r}) =
              IF ActiveRoleOf(t, u) = {} THEN "Unauthorized"
              ELSE IF ActiveRoleOf(t, u) \cap {"OWNER", "ADMIN"} = {}
                   THEN "Forbidden"
              ELSE "BadRequest")
  /\ [][/\ TenantReturned("updateMember") => OwnersKept
        /\ FailureChangesNothing("updateMember")]_vars

\* C18 witness: an updateMember call was answered with BadRequest, which
\* only the change of an OWNER's role draws.
C18_Witness ==
  /\ last.op = "updateMember" /\ last.result = "BadRequest"
  /\ \E tu \in tenantUsers : tu.role = "OWNER"

\* userId acts in the tenant under a role that is not OWNER
ActsAsNonOwner(tenantId, userId) ==
  ActiveRoleOf(tenantId, userId) # {} /\ "OWNER" \notin ActiveRoleOf(tenantId, userId)

\* C19 as stated: updateMember by a caller whose role is not OWNER fails with
\* Forbidden whenever it grants the OWNER role to a member or takes the
\* OWNER role from its holder.
C19_Original ==
  \A t \in tenants, u \in UserIds, m \in UserIds, r \in TenantRole :
    (/\ ActsAsNonOwner(t, u)
     /\ TenantUserOf(t, m) # {}
     /\ r = "OWNER" \/ TargetIsOwner(t, m))
    => UpdateMemberResult(t, u, m, {r}) = "Forbidden"

\* C19 amended: updateMember by a caller whose role is not OWNER always fails
\* when it grants the OWNER role to a member or takes it from its holder, and
\* the target is unchanged: a grant fails with Forbidden; taking the role
\* from the OWNER fails with Forbidden for a MEMBER or GUEST caller and with
\* BadRequest for an ADMIN caller.
C19_NonOwnerCannotManageOwnerRole ==
  /\ [](\A t \in tenants, u \in UserIds, m \in UserIds, r \in TenantRole :
          (/\ ActsAsNonOwner(t, u)
           /\ TenantUserOf(t, m) # {}
           /\ r = "OWNER" \/ TargetIsOwner(t, m))
          => UpdateMemberResult(t, u, m, {r}) =
               IF r # "OWNER" /\ "ADMIN" \in ActiveRoleOf(t, u)
               THEN "BadRequest" ELSE "Forbidden")
  /\ [][FailureChangesNothing("updateMember")]_vars

\* C19 witness: an updateMember call of an ADMIN was answered with Forbidden
\* (every membership is OWNER or ADMIN, so the caller was an ADMIN reaching
\* for the OWNER role or the OWNER's membership).
C19_Witness ==
  /\ last.op = "updateMember" /\ last.result = "Forbidden"
  /\ \A tu \in tenantUsers : tu.role \in {"OWNER", "ADMIN"}
  /\ \E tu \in tenantUsers : tu.role = "ADMIN" /\ tu.isActive

\* C20: transferOwnership fails unless the caller's membership role in the
\* tenant is OWNER, fails with NotFound when the owner names a newOwnerId
\* that has no membership in the tenant, and a failed call changes no
\* membership.
C20_TransferGuards ==
  /\ [](\A t \in tenants, u \in UserIds, m \in UserIds \cup {NoId} :
          /\ "OWNER" \notin ActiveRoleOf(t, u)
               => TransferOwnershipResult(t, u, m) \in {"Unauthorized", "Forbidden"}
          /\ ("OWNER" \in ActiveRoleOf(t, u) /\ TenantUserOf(t, m) = {})
               => TransferOwnershipResult(t, u, m) = "NotFound")
  /\ [][/\ FailureChangesNothing("transferOwnership")
        /\ (TenantReturned("transferOwnership") /\ last'.result = "ok")
             => \E tu \in tenantUsers :
                  /\ tu.tenantId = last'.tenantId /\ tu.userId = last'.userId
                  /\ tu.role = "OWNER"]_vars

\* C20 witness: a transferOwnership call of the owner named a user without
\* membership and was answered with NotFound.
C20_Witness ==
  /\ last.op = "transferOwnership" /\ last.result = "NotFound"
  /\ \E u \in users : \A tu \in tenantUsers : tu.userId # u.id

\* C21: leaveTenant of an active member whose role is OWNER fails with
\* BadRequest and leaves the membership in place; for any other active member
\* it deletes exactly the caller's membership and no other row.
C21_LeaveTenant ==
  /\ [](\A t \in tenants, u \in UserIds :
          ActiveRoleOf(t, u) # {} =>
            LeaveTenantResult(t, u) =
              IF "OWNER" \in ActiveRoleOf(t, u) THEN "BadRequest" ELSE "ok")
  /\ [][/\ FailureChangesNothing("leaveTenant")
        /\ TenantReturned("leaveTenant") => OwnersKept
        /\ (TenantReturned("leaveTenant") /\ last'.result = "ok") =>
             /\ TenantUserOf(last'.tenantId, last'.userId) # {}
             /\ tenantUsers' =
                  tenantUsers \ TenantUserOf(last'.tenantId, last'.userId)
             /\ users' = users]_vars

\* C21 witness: a member who is not the owner has left, and the owner's
\* membership is still there.
C21_Witness ==
  /\ last.op = "leaveTenant" /\ last.result = "ok"
  /\ TenantUserOf(last.tenantId, last.userId) = {}
  /\ OwnersOf(last.tenantId) # {}

\* C22: removeMember in which the remover acts as ADMIN and the target is the
\* remover's own membership fails with BadRequest, and the membership remains.
C22_AdminCannotRemoveSelf ==
  /\ [](\A t \in tenants, u \in UserIds :
          "ADMIN" \in ActiveRoleOf(t, u) => RemoveMemberResult(t, u, u) = "BadRequest")
  /\ [][FailureChangesNothing("removeMember")]_vars

\* C22 witness: a removeMember call of an admin aimed at the admin's own
\* membership was refused, and an active ADMIN membership is there.
C22_Witness ==
  /\ last.op = "removeMember" /\ last.result = "BadRequest"
  /\ last.message = "Admins cannot remove themselves"
  /\ \E tu \in tenantUsers : tu.role = "ADMIN" /\ tu.isActive

\* ------------------------------------------------------------------------
\* The guards of the member-management handlers, with callers of every role
\* ------------------------------------------------------------------------
NextGuards ==
  \/ \E s \in Salts : Register("a@x.com", "P@ssw0rd1", s)
  \/ \E t \in tenants, u \in UserIds, e \in InviteEmails, r \in TenantRole :
       InviteUser(t, u, e, r, {})
  \/ \E u \in UserIds : AcceptInvitation(u)
  \/ \E t \in tenants, u \in UserIds : GetTenantMembers(t, u)
  \/ \E t \in tenants, u \in UserIds, m \in UserIds, b \in BOOLEAN :
       UpdateMember(t, u, m, {}, {}, {b})
  \/ \E t \in tenants, u \in UserIds, m \in UserIds : RemoveMember(t, u, m)

SpecGuards == Init /\ [][NextGuards]_vars

ManagementOps == {"getTenantMembers", "inviteUser", "updateMember", "removeMember"}

\* what the caller's standing in the tenant makes of a call whose guards
\* answered `result`
GuardedAnswer(tenantId, userId, result) ==
  IF ActiveRoleOf(tenantId, userId) = {} THEN result = "Unauthorized"
  ELSE IF ActiveRoleOf(tenantId, userId) \cap {"OWNER", "ADMIN"} = {}
       THEN result = "Forbidden"
  ELSE result \notin {"Unauthorized"}

\* C23: getTenantMembers, inviteUser, updateMember and removeMember succeed
\* only for a caller with an active membership of role OWNER or ADMIN in the
\* tenant: a caller with role MEMBER or GUEST gets Forbidden, a non-member or
\* inactive member gets Unauthorized, and a refused call changes no user and
\* no membership row.
C23_ManagementNeedsOwnerOrAdmin ==
  /\ [](\A t \in tenants, u \in UserIds \cup {NoId} :
          /\ GuardedAnswer(t, u, GetTenantMembersResult(t, u))
          /\ \A e \in Emails : GuardedAnswer(t, u, InviteUserResult(t, u, e))
          /\ \A m \in UserIds, r \in {{}} \cup {{x} : x \in TenantRole} :
               GuardedAnswer(t, u, UpdateMemberResult(t, u, m, r))
          /\ \A m \in UserIds : GuardedAnswer(t, u, RemoveMemberResult(t, u, m)))
  /\ [][\A op \in ManagementOps :
          (TenantReturned(op) /\ last'.result \in {"Unauthorized", "Forbidden"})
            => users' = users /\ tenantUsers' = tenantUsers]_vars

\* C23 witness: an invitation sent by a GUEST was refused with Forbidden
\* (every active membership that is neither OWNER nor ADMIN is a GUEST's).
C23_Witness ==
  /\ last.op = "inviteUser" /\ last.result = "Forbidden"
  /\ \E tu \in tenantUsers : tu.isActive /\ tu.role = "GUEST"
  /\ \A tu \in tenantUsers :
       (tu.isActive /\ tu.role \notin {"OWNER", "ADMIN"}) => tu.role = "GUEST"

\* ------------------------------------------------------------------------
\* TenantService.inviteUser call by call: one step per awaited query, so
\* that invitations of different requests interleave. The rows created
\* through the transaction client stay with the call until the transaction
\* commits. An insert that meets a committed row with its unique key throws
\* and rolls the transaction back; one that meets the uncommitted row of an
\* open transaction waits for that transaction to end.
\* ------------------------------------------------------------------------
InviteBegin(p, tenantId, inviterId, email, role) ==
  /\ calls[p].pc = "idle"
  /\ SetCall(p, [op |-> "inviteUser", pc |-> "verifyTenantAccess",
                 tenantId |-> tenantId, userId |-> inviterId, email |-> email,
                 role |-> role, result |-> "pending", user |-> {}, tx |-> NoTx])
  /\ UNCHANGED <<dbVars, redis, now, ticks, client, ids, issued, hist, last>>

\* const inviter = await this.verifyTenantAccess(tenantId, inviterId), and the check
InviteVerifyAccess(p) ==
  /\ calls[p].op = "inviteUser" /\ calls[p].pc = "verifyTenantAccess"
  /\ LET found == verifyTenantAccess(calls[p].tenantId, calls[p].userId)
     IN  IF found = {} THEN Return(p, "Unauthorized")
         ELSE IF \E tu \in found : tu.role \notin {"OWNER", "ADMIN"}
         THEN Return(p, "Forbidden")
         ELSE Goto(p, "findUser")
  /\ UNCHANGED <<dbVars, redis, now, ticks, client, ids, issued, hist, last>>

\* let user = await this.prisma.user.findUnique({ where: { email } })
InviteFindUser(p) ==
  /\ calls[p].op = "inviteUser" /\ calls[p].pc = "findUser"
  /\ LET found == UserByEmail(calls[p].email)
     IN  SetCall(p, [calls[p] EXCEPT
                       !.pc = IF found = {} THEN "createUser" ELSE "findMember",
                       !.user = found])
  /\ UNCHANGED <<dbVars, redis, now, ticks, client, ids, issued, hist, last>>

\* const existingMember = await this.prisma.tenantUser.findUnique(...)
InviteFindMember(p) ==
  /\ calls[p].op = "inviteUser" /\ calls[p].pc = "findMember"
  /\ LET user == CHOOSE u \in calls[p].user : TRUE
     IN  IF TenantUserOf(calls[p].tenantId, user.id) # {}
         THEN Return(p, "Conflict")
         ELSE Goto(p, "createTenantUser")
  /\ UNCHANGED <<dbVars, redis, now, ticks, client, ids, issued, hist, last>>

\* an insert of the same email by an open transaction holds this one back
InviteEmailHeldBy(p, email) ==
  \E q \in Procs \ {p} :
    /\ calls[q].op = "inviteUser" /\ InFlight(q)
    /\ \E u \in calls[q].tx.users : u.email = email

\* user = await tx.user.create(...): users_email_key decides
InviteTxCreateUser(p) ==
  /\ calls[p].op = "inviteUser" /\ calls[p].pc = "createUser"
  /\ ~InviteEmailHeldBy(p, calls[p].email)
  /\ LET c == calls[p]
         user == InvitedUser(ids.user + 1, c.email)
     IN  IF UserByEmail(c.email) # {}
         THEN /\ SetCall(p, [c EXCEPT !.pc = "done", !.tx = NoTx,
                                      !.result = "UniqueConstraint"])
              /\ UNCHANGED <<users, ids>>
         ELSE /\ SetCall(p, [c EXCEPT !.pc = "createTenantUser",
                                      !.user = {user}, !.tx.users = {user}])
              /\ users' = users \cup BeforeCommit({user})
              /\ ids' = [ids EXCEPT !.user = @ + 1]
  /\ UNCHANGED <<tenants, tenantUsers, passwordResets, redis, now, ticks, client,
                 issued, hist, last>>

\* an insert of the same (tenant, user) pair by an open transaction holds
\* this one back
InvitePairHeldBy(p, tenantId, userId) ==
  \E q \in Procs \ {p} :
    /\ calls[q].op = "inviteUser" /\ InFlight(q)
    /\ \E tu \in calls[q].tx.tenantUsers :
         tu.tenantId = tenantId /\ tu.userId = userId

\* faulty variant: tenant_users has no unique index on (tenant_id, user_id)
PairTaken_NoIndex(tenantId, userId) == FALSE

\* CREATE UNIQUE INDEX tenant_users_tenant_id_user_id_key: the insert of a
\* pair that a committed row has is refused
PairTaken(tenantId, userId) == TenantUserOf(tenantId, userId) # {}

\* await tx.tenantUser.create(...): tenant_users_tenant_id_user_id_key decides
InviteTxCreateTenantUser(p) ==
  /\ calls[p].op = "inviteUser" /\ calls[p].pc = "createTenantUser"
  /\ LET c == calls[p]
         user == CHOOSE u \in c.user : TRUE
         tu == InvitedMembership(ids.row + 1, c.tenantId, user.id, c.role, {},
                                 c.userId)
     IN  /\ ~InvitePairHeldBy(p, c.tenantId, user.id)
         /\ IF PairTaken(c.tenantId, user.id)
            THEN /\ SetCall(p, [c EXCEPT !.pc = "done", !.tx = NoTx,
                                         !.result = "UniqueConstraint"])
                 /\ UNCHANGED <<tenantUsers, ids>>
            ELSE /\ SetCall(p, [c EXCEPT !.pc = "commit", !.tx.tenantUsers = {tu}])
                 /\ tenantUsers' = tenantUsers \cup BeforeCommit({tu})
                 /\ ids' = [ids EXCEPT !.row = @ + 1]
  /\ UNCHANGED <<users, tenants, passwordResets, redis, now, ticks, client, issued,
                 hist, last>>

\* the callback returns, $transaction commits, and the token goes out
InviteTxCommit(p) ==
  /\ calls[p].op = "inviteUser" /\ calls[p].pc = "commit"
  /\ users' = users \cup calls[p].tx.users
  /\ tenantUsers' = tenantUsers \cup calls[p].tx.tenantUsers
  /\ Return(p, "ok")
  /\ UNCHANGED <<tenants, passwordResets, redis, now, ticks, client, ids, issued, hist,
                 last>>

\* the tenants are set up before the concurrent invitations arrive: the
\* set-up invites admins, the concurrent requests invite members
NextInvite ==
  \/ \E e \in AuthEmails, s \in Salts : NoCallYet /\ Register(e, "P@ssw0rd1", s)
  \/ \E t \in tenants, u \in UserIds, e \in InviteEmails :
       NoCallYet /\ InviteUser(t, u, e, "ADMIN", {})
  \/ \E u \in UserIds : NoCallYet /\ AcceptInvitation(u)
  \/ \E p \in Procs, t \in tenants, u \in UserIds, e \in InviteEmails :
       InviteBegin(p, t, u, e, "MEMBER")
  \/ \E p \in Procs : InviteVerifyAccess(p)
  \/ \E p \in Procs : InviteFindUser(p)
  \/ \E p \in Procs : InviteFindMember(p)
  \/ \E p \in Procs : InviteTxCreateUser(p)
  \/ \E p \in Procs : InviteTxCreateTenantUser(p)
  \/ \E p \in Procs : InviteTxCommit(p)

SpecInvite == Init /\ [][NextInvite]_vars

\* ------------------------------------------------------------------------
\* Properties of inviteUser
\* ------------------------------------------------------------------------
\* the email has a membership in the tenant
EmailIsMember(tenantId, email) ==
  \E u \in UserByEmail(email) : TenantUserOf(tenantId, u.id) # {}

\* this step has added exactly the rows of an invitation of email to the
\* tenant: an inactive membership, and the account if there was none
InvitationRowsAdded(tenantId, email) ==
  /\ \E tu \in tenantUsers' :
       /\ tenantUsers' \ tenantUsers = {tu}
       /\ tu.tenantId = tenantId /\ ~tu.isActive
       /\ \E u \in users' : u.id = tu.userId /\ u.email = email
  /\ tenantUsers \subseteq tenantUsers'
  /\ users \subseteq users'
  /\ IF UserByEmail(email) # {} THEN users' = users
     ELSE \E u \in users' :
            /\ users' \ users = {u}
            /\ u.email = email /\ ~u.isVerified /\ u.passwordHash = NoHash

\* the inviteUser call of p returns with this step
InviteReturns(p) ==
  /\ calls[p].op = "inviteUser" /\ InFlight(p)
  /\ calls'[p].pc = "done"

\* C24: inviteUser by an OWNER or ADMIN for an email without membership in
\* the tenant creates, in one step for every reader, the User row if it is
\* absent (isVerified=false, no password) and a Membership of (tenant, user)
\* with isActive=false; for an email that has a membership in the tenant it
\* fails with Conflict and creates nothing.
C24_InviteCreatesInactiveMembership ==
  /\ [](\A t \in tenants, u \in UserIds, e \in Emails :
          ActiveRoleOf(t, u) \cap {"OWNER", "ADMIN"} # {} =>
            InviteUserResult(t, u, e) =
              IF EmailIsMember(t, e) THEN "Conflict" ELSE "ok")
  /\ [](\A u \in users :
          u.passwordHash = NoHash => \E tu \in tenantUsers : tu.userId = u.id)
  /\ [][/\ (TenantReturned("inviteUser") /\ last'.result = "ok") =>
             \E u \in users' : /\ u.id = last'.targetId
                               /\ InvitationRowsAdded(last'.tenantId, u.email)
        /\ (TenantReturned("inviteUser") /\ last'.result # "ok") =>
             users' = users /\ tenantUsers' = tenantUsers
        /\ \A p \in Procs : InviteReturns(p) =>
             /\ calls'[p].result = "ok" =>
                  InvitationRowsAdded(calls[p].tenantId, calls[p].email)
             /\ calls'[p].result # "ok" =>
                  /\ users' = users /\ tenantUsers' = tenantUsers
                  /\ calls'[p].tx = NoTx
             /\ calls'[p].result = "Conflict" <=>
                  /\ calls[p].pc = "findMember"
                  /\ EmailIsMember(calls[p].tenantId, calls[p].email)]_vars

\* C24 witness: of two overlapping invitations, one has created the account
\* and its inactive membership, and the other, for an email that was a member
\* already, was refused with Conflict.
C24_Witness ==
  \E p, q \in Procs :
    /\ calls[p].op = "inviteUser" /\ calls[p].result = "ok"
    /\ calls[p].tx.users # {}
    /\ \A u \in calls[p].tx.users :
         /\ u \in users /\ ~u.isVerified /\ u.passwordHash = NoHash
         /\ \E tu \in TenantUserOf(calls[p].tenantId, u.id) : ~tu.isActive
    /\ calls[q].op = "inviteUser" /\ calls[q].result = "Conflict"

\* ------------------------------------------------------------------------
\* Invitations and their acceptance. No request of this specification sends
\* isActive: false, so a membership that is not active here is an invitation
\* nobody has accepted yet.
\* ------------------------------------------------------------------------
ActivatingDtos ==
  {[role |-> {r}, isActive |-> {}] : r \in RequestRoles} \cup
  {[role |-> {}, isActive |-> {TRUE}]}

NextAcceptance ==
  \/ \E s \in Salts : Register("a@x.com", "P@ssw0rd1", s)
  \/ \E t \in tenants, u \in UserIds, e \in InviteEmails, r \in RequestRoles :
       InviteUser(t, u, e, r, {})
  \/ \E u \in UserIds : AcceptInvitation(u)
  \/ \E t \in tenants, u \in UserIds, m \in UserIds, dto \in ActivatingDtos :
       UpdateMember(t, u, m, dto.role, {}, dto.isActive)
  \/ \E t \in tenants, u \in UserIds, m \in UserIds : RemoveMember(t, u, m)
  \/ \E t \in tenants, u \in UserIds, m \in UserIds : TransferOwnership(t, u, m)

SpecAcceptance == Init /\ [][NextAcceptance]_vars

\* C25: a Membership created by inviteUser becomes active only on explicit
\* acceptance: it has isActive=false until acceptInvitation is performed for
\* that user, and no other operation activates it.
C25_ActiveOnlyOnAcceptance ==
  [][\A tu \in tenantUsers :
       (/\ tu.invited /\ ~tu.isActive
        /\ \E tv \in tenantUsers' : tv.id = tu.id /\ tv.isActive)
       => /\ TenantReturned("acceptInvitation")
          /\ last'.userId = tu.userId]_vars

\* C26: in every reachable state, also after concurrent inviteUser calls for
\* one email in one tenant, there is at most one Membership row per
\* (tenant, user) pair (and one user per email).
C26_OneMembershipPerPair ==
  /\ \A tu, tv \in tenantUsers :
       (tu.tenantId = tv.tenantId /\ tu.userId = tv.userId) => tu = tv
  /\ \A u, v \in users : u.email = v.email => u = v

\* C26 witness: two overlapping invitations of one email to one tenant have
\* both got past the membership lookup; one has committed, the other was
\* thrown out by the unique index on (tenant_id, user_id), and the pair has
\* its one row.
C26_Witness ==
  \E p, q \in Procs :
    /\ calls[p].op = "inviteUser" /\ calls[p].result = "ok"
    /\ calls[q].op = "inviteUser" /\ calls[q].result = "UniqueConstraint"
    /\ calls[p].tenantId = calls[q].tenantId /\ calls[p].email = calls[q].email
    /\ calls[p].tx.users = {}
    /\ \E u \in UserByEmail(calls[p].email) :
         Cardinality(TenantUserOf(calls[p].tenantId, u.id)) = 1

\* ------------------------------------------------------------------------
\* Properties of the password-reset tokens
\* ------------------------------------------------------------------------
\* Accounts: a registered email, an invited one (an account without password
\* until a reset sets one) and one that stays unknown; login, forgot / reset
\* password, time
NextAccount ==
  \/ \E s \in Salts : Register("a@x.com", "P@ssw0rd1", s)
  \/ \E t \in tenants, u \in UserIds : InviteUser(t, u, "b@x.com", "MEMBER", {})
  \/ \E e \in AuthEmails, pw \in Passwords : Login(e, pw, NoId)
  \/ \E e \in AuthEmails : ForgotPassword(e)
  \/ \E tok \in 1..MaxResets, s \in Salts : ResetPassword(tok, "N3w@pass", s)
  \/ \E d \in TickSteps : Tick(d)

SpecAccount == Init /\ [][NextAccount]_vars

\* a call of the handler has returned with this step
Returned(op) == last' # last /\ last'.op = op

\* the raw tokens a client may send: those handed out so far and one that
\* was never handed out
ResetTokens == 1..(ids.reset + 1)

\* C27: resetPassword fails with BadRequest when the hash of the supplied
\* token matches no PasswordResetToken, or the record is used already, or it
\* has expired, and then leaves the passwords and all sessions unchanged; a
\* token that succeeded once is marked used, and every later resetPassword
\* with the same token fails.
C27_ResetTokenSingleUse ==
  /\ [](\A token \in ResetTokens :
          LET records == {r \in passwordResets : r.id = token}
          IN  ResetPasswordResult(token) =
                IF \/ records = {}
                   \/ \E r \in records : r.isUsed
                   \/ \E r \in records : now > r.expiresAt
                THEN "BadRequest" ELSE "ok")
  /\ [][/\ (Returned("resetPassword") /\ last'.result = "BadRequest") =>
             /\ users' = users /\ passwordResets' = passwordResets
             /\ redis' = redis
        /\ (Returned("resetPassword") /\ last'.result = "ok") =>
             \E r \in passwordResets :
               /\ ~r.isUsed /\ r.userId = last'.userId
               /\ passwordResets' =
                    (passwordResets \ {r}) \cup {[r EXCEPT !.isUsed = TRUE]}
        /\ \A r \in passwordResets : r.isUsed => r \in passwordResets']_vars

\* C27 witness: the token that reset the password was sent a second time,
\* before its hour was over, and was refused; the password it set is in place.
C27_Witness ==
  /\ last.op = "resetPassword" /\ last.result = "BadRequest"
  /\ \E r \in passwordResets : r.isUsed /\ now <= r.expiresAt
  /\ \A r \in passwordResets : r.isUsed
  /\ \E r \in passwordResets : \E u \in UserById(r.userId) :
       bcryptCompare("N3w@pass", u.passwordHash)

\* C28: forgotPassword always returns success, with the same response whether
\* or not the email belongs to a user; a PasswordResetToken record is created
\* only when the user exists, and nothing else in the stores changes.
C28_ForgotPasswordSameResponse ==
  [][\A e \in Emails : ForgotPassword(e) =>
       /\ last' = Outcome("forgotPassword", "ok", NoId, NoId, {}, {})
       /\ users' = users /\ tenants' = tenants /\ tenantUsers' = tenantUsers
       /\ redis' = redis
       /\ IF UserByEmail(e) = {} THEN passwordResets' = passwordResets
          ELSE \E r \in passwordResets' :
                 /\ r \notin passwordResets
                 /\ passwordResets' = passwordResets \cup {r}
                 /\ \E u \in UserByEmail(e) : r.userId = u.id
                 /\ ~r.isUsed /\ r.expiresAt = now + resetTokenExpiry]_vars

\* C28 witness: a forgotPassword call has returned while one email has a user
\* and a reset record and the other email has no user.
C28_Witness ==
  /\ last = Outcome("forgotPassword", "ok", NoId, NoId, {}, {})
  /\ \E e \in AuthEmails : UserByEmail(e) = {}
  /\ \E e \in AuthEmails : \E u \in UserByEmail(e) :
       \E r \in passwordResets : r.userId = u.id

\* the email has a user, and the password sent does not log this user in
WrongPassword(email, password) ==
  \E u \in UserByEmail(email) :
    u.passwordHash = NoHash \/ ~bcryptCompare(password, u.passwordHash)

\* a failed login has told the caller nothing but its failure, has created
\* no session and has changed no stored state
FailedLoginKeepsState ==
  (Returned("login") /\ last'.result # "ok") =>
    /\ last' = Outcome("login", last'.result, NoId, NoId, {}, {})
    /\ users' = users /\ tenants' = tenants /\ tenantUsers' = tenantUsers
    /\ passwordResets' = passwordResets
    /\ redis' = redis /\ issued' = issued

LifetimeSteps == {accessTokenExpiry \div 2, refreshTokenExpiry}

NextLifetime ==
  \/ \E e \in AuthEmails, s \in Salts : Register(e, "P@ssw0rd1", s)
  \/ \E e \in AuthEmails : Login(e, "P@ssw0rd1", NoId)
  \/ \E p \in issued : Logout(p.accessToken.sub, p.accessToken.sessionId)
  \/ \E p \in issued : JwtStrategyValidate(p.accessToken)
  \/ \E d \in LifetimeSteps : Tick(d)

SpecLifetime == Init /\ [][NextLifetime]_vars

\* C30: every Session record has a TTL equal to the refresh-token lifetime
\* counted from its creation by generateTokens: a session that is still in
\* the store goes at creation + 604800 s, and from then on verification of
\* its access token fails.
C30_SessionTtlFromCreation ==
  \A p \in issued :
    LET sid == p.accessToken.sessionId
        created == p.accessToken.iat
    IN  /\ isSessionValid(redis, sid, now) =>
             redis[Prefixed(SessionKey(sid))].exp = created + refreshTokenExpiry
        /\ now >= created + refreshTokenExpiry =>
             verifyAccessToken(redis, p.accessToken, now) # "ok"

\* ------------------------------------------------------------------------
\* JwtStrategy.validate call by call, next to logout: one step per awaited
\* Redis command
\* ------------------------------------------------------------------------
\* an authenticated request arrives; passport-jwt checks signature and expiry
ValidateBegin(p, token) ==
  /\ calls[p].pc = "idle"
  /\ SetCall(p, [op |-> "validate",
                 pc |-> IF jwtVerify(token, JWT_SECRET, now)
                        THEN "getSessionData" ELSE "done",
                 token |-> token,
                 result |-> IF jwtVerify(token, JWT_SECRET, now)
                            THEN "pending" ELSE "InvalidToken",
                 sessionData |-> {}])
  /\ UNCHANGED <<dbVars, redis, now, ticks, client, ids, issued, hist, last>>

\* validate: await getSessionData(payload.sessionId), then the isValid test
ValidateGetSessionData(p) ==
  /\ calls[p].op = "validate" /\ calls[p].pc = "getSessionData"
  /\ IF redisHas(redis, SessionKey(calls[p].token.sessionId), now)
     THEN Goto(p, "updateGet")
     ELSE Return(p, "SessionExpired")
  /\ UNCHANGED <<dbVars, redis, now, ticks, client, ids, issued, hist, last>>

\* updateSessionLastUsed: await getSessionData(sessionId)
UpdateGetSessionData(p) ==
  /\ calls[p].op = "validate" /\ calls[p].pc = "updateGet"
  /\ LET key == SessionKey(calls[p].token.sessionId)
     IN  IF redisHas(redis, key, now)
         THEN SetCall(p, [calls[p] EXCEPT !.pc = "updateStore",
                                          !.sessionData = {redisGet(redis, key)}])
         ELSE Return(p, "ok")
  /\ UNCHANGED <<dbVars, redis, now, ticks, client, ids, issued, hist, last>>

\* updateSessionLastUsed: await storeSession(sessionId, {...sessionData}),
\* and validate returns the payload
UpdateStoreSession(p) ==
  /\ calls[p].op = "validate" /\ calls[p].pc = "updateStore"
  /\ redis' = storeSession(redis, calls[p].token.sessionId,
                           CHOOSE d \in calls[p].sessionData : TRUE, now)
  /\ Return(p, "ok")
  /\ UNCHANGED <<dbVars, now, ticks, client, ids, issued, hist, last>>

NextValidate ==
  \/ \E e \in AuthEmails, s \in Salts : Register(e, "P@ssw0rd1", s)
  \/ \E p \in issued : Logout(p.accessToken.sub, p.accessToken.sessionId)
  \/ \E p \in Procs, q \in issued : ValidateBegin(p, q.accessToken)
  \/ \E p \in Procs : ValidateGetSessionData(p)
  \/ \E p \in Procs : UpdateGetSessionData(p)
  \/ \E p \in Procs : UpdateStoreSession(p)

SpecValidate == Init /\ [][NextValidate]_vars

\* C31: once revokeSession(sessionId) has completed, the session record of
\* that id never exists again, whatever authenticated requests (validate,
\* updateSessionLastUsed) run beside it for the same session.
C31_RevocationFinal ==
  \A sid \in hist.revoked : Prefixed(SessionKey(sid)) \notin DOMAIN redis

\* ------------------------------------------------------------------------
\* AuthService.changePassword call by call, next to login: one step per
\* awaited store operation; revokeAllUserSessions is KEYS, then GET and DEL
\* key by key
\* ------------------------------------------------------------------------
ChangeBegin(p, userId, currentPassword, newPassword, newSalt) ==
  /\ calls[p].pc = "idle"
  /\ SetCall(p, [op |-> "changePassword", pc |-> "findUser", userId |-> userId,
                 currentPassword |-> currentPassword,
                 newPassword |-> newPassword, newSalt |-> newSalt,
                 result |-> "pending", keys |-> {}, key |-> <<>>,
                 sessionsAtReturn |-> 0])
  /\ UNCHANGED <<dbVars, redis, now, ticks, client, ids, issued, hist, last>>

\* await prisma.user.findUnique(...), the passwordHash test, bcrypt.compare
ChangeFindUser(p) ==
  /\ calls[p].op = "changePassword" /\ calls[p].pc = "findUser"
  /\ LET user == CHOOSE u \in UserById(calls[p].userId) : TRUE
     IN  IF user.passwordHash = NoHash THEN Return(p, "BadRequest")
         ELSE IF ~bcryptCompare(calls[p].currentPassword, user.passwordHash)
              THEN Return(p, "Unauthorized")
         ELSE Goto(p, "updateUser")
  /\ UNCHANGED <<dbVars, redis, now, ticks, client, ids, issued, hist, last>>

\* bcrypt.genSalt, bcrypt.hash, await prisma.user.update(...)
ChangeUpdateUser(p) ==
  /\ calls[p].op = "changePassword" /\ calls[p].pc = "updateUser"
  /\ LET user == CHOOSE u \in UserById(calls[p].userId) : TRUE
     IN  users' = (users \ {user}) \cup
                  {[user EXCEPT !.passwordHash =
                      bcryptHash(calls[p].newPassword, calls[p].newSalt)]}
  /\ Goto(p, "keys")
  /\ UNCHANGED <<tenants, tenantUsers, passwordResets, redis, now, ticks, client, ids,
                 issued, hist, last>>

\* revokeAllUserSessions: await redis.keys(pattern)
RevokeAllKeys(p) ==
  /\ calls[p].op = "changePassword" /\ calls[p].pc = "keys"
  /\ SetCall(p, [calls[p] EXCEPT !.pc = "get",
                   !.keys = redisKeys(redis, <<sessionPrefix>>, now)])
  /\ UNCHANGED <<dbVars, redis, now, ticks, client, ids, issued, hist, last>>

\* revokeAllUserSessions: the loop over the reply, one awaited command per
\* step (GET of the next key, DEL of a key found to be the user's); when
\* the reply is used up changePassword returns
RevokeAllLoop(p) ==
  /\ calls[p].op = "changePassword" /\ calls[p].pc \in {"get", "del"}
  /\ LET c == calls[p] IN
     IF c.pc = "del"
     THEN /\ redis' = redisDel(redis, c.key)
          /\ SetCall(p, [c EXCEPT !.pc = "get", !.key = <<>>])
     ELSE IF c.keys = {}
     THEN /\ SetCall(p, [c EXCEPT !.pc = "done", !.result = "ok",
                                  !.sessionsAtReturn = ids.session])
          /\ redis' = redis
     ELSE \E k \in c.keys :
            /\ IF redisHas(redis, k, now) /\ redisGet(redis, k).userId = c.userId
               THEN SetCall(p, [c EXCEPT !.pc = "del", !.key = k,
                                         !.keys = c.keys \ {k}])
               ELSE SetCall(p, [c EXCEPT !.keys = c.keys \ {k}])
            /\ redis' = redis
  /\ UNCHANGED <<dbVars, now, ticks, client, ids, issued, hist, last>>

NextChange ==
  \/ \E s \in Salts : Register("a@x.com", "P@ssw0rd1", s)
  \/ \E pw \in Passwords : Login("a@x.com", pw, NoId)
  \/ \E p \in Procs, u \in UserIds, cur \in Passwords, s \in Salts :
       ChangeBegin(p, u, cur, "N3w@pass", s)
  \/ \E p \in Procs : ChangeFindUser(p)
  \/ \E p \in Procs : ChangeUpdateUser(p)
  \/ \E p \in Procs : RevokeAllKeys(p)
  \/ \E p \in Procs : RevokeAllLoop(p)

SpecChange == Init /\ [][NextChange]_vars

\* the sessions of a user that have a record
SessionsOf(userId) ==
  {sid \in 1..ids.session :
     /\ isSessionValid(redis, sid, now)
     /\ redisGet(redis, SessionKey(sid)).userId = userId}

\* C32: once a changePassword call has returned, no session record of that
\* user created before the return still exists, whatever login calls ran
\* beside it.
C32_NoSessionSurvivesChange ==
  \A p \in Procs :
    (calls[p].op = "changePassword" /\ calls[p].pc = "done"
       /\ calls[p].result = "ok")
    => SessionsOf(calls[p].userId) \cap (1..calls[p].sessionsAtReturn) = {}

\* ------------------------------------------------------------------------
\* Tenant context of a refreshed session: refreshToken with and without a
\* tenantId override, next to the operations that end a membership
\* ------------------------------------------------------------------------
NextScoped ==
  \/ \E e \in AuthEmails, s \in Salts : Register(e, "P@ssw0rd1", s)
  \/ \E tok \in IssuedRefreshTokens, t \in TenantIds : RefreshToken(tok, t)
  \/ \E t \in tenants, u \in UserIds, r \in ContextRoles :
       InviteUser(t, u, "b@x.com", r, ContextPermissions)
  \/ \E u \in UserIds : AcceptInvitation(u)
  \/ \E t \in tenants, u \in UserIds, m \in UserIds : RemoveMember(t, u, m)
  \/ \E t \in tenants, u \in UserIds : LeaveTenant(t, u)

SpecScoped == Init /\ [][NextScoped]_vars

\* C33: a token pair minted by refreshToken that carries a tenantId is minted
\* only while the user has an active membership in that tenant, and carries
\* that membership's role and permissions; in particular a tenantId override
\* naming a tenant the user does not belong to, or a tenant the user was
\* removed from, never yields a token scoped to that tenant.
C33_RefreshTenantContext ==
  (last.op = "refreshToken" /\ last.result = "ok") =>
    \A pair \in last.tokens :
      LET a == pair.accessToken IN
      a.tenantId # NoId =>
        \E tu \in ActiveTenantUsers(a.sub) :
          /\ tu.tenantId = a.tenantId
          /\ tu.role = a.role
          /\ tu.permissions = a.permissions

\* ------------------------------------------------------------------------
\* Authorization against the stored role
\* ------------------------------------------------------------------------
\* the caller holds an unexpired access token for the tenant with role OWNER
HoldsOwnerToken(tenantId, userId) ==
  \E p \in issued : /\ p.accessToken.sub = userId
                    /\ p.accessToken.tenantId = tenantId
                    /\ p.accessToken.role = "OWNER"
                    /\ jwtVerify(p.accessToken, JWT_SECRET, now)

\* C34: tenant management authorizes against the caller's current membership
\* role in the store, not the role in the token: transferOwnership and the
\* grant of OWNER through updateMember succeed only for a caller whose active
\* membership is OWNER now, and once transferOwnership from A to B has
\* succeeded A is no longer such a caller, so A's further transferOwnership
\* and OWNER grants fail although A's token still says OWNER.
C34_StoreRoleDecides ==
  /\ \A t \in tenants, u \in UserIds, m \in UserIds \cup {NoId} :
       /\ TransferOwnershipResult(t, u, m) = "ok" => "OWNER" \in ActiveRoleOf(t, u)
       /\ UpdateMemberResult(t, u, m, {"OWNER"}) = "ok"
            => "OWNER" \in ActiveRoleOf(t, u)
  /\ (/\ last.op = "transferOwnership" /\ last.result = "ok"
      /\ last.userId # last.targetId)
     => \A m \in UserIds \cup {NoId} :
          /\ TransferOwnershipResult(last.tenantId, last.userId, m)
               \in {"Unauthorized", "Forbidden"}
          /\ UpdateMemberResult(last.tenantId, last.userId, m, {"OWNER"})
               \in {"Unauthorized", "Forbidden", "NotFound"}

\* C34 witness: transferOwnership from A to B has just succeeded; A still
\* holds an unexpired token with role OWNER and is ADMIN in the store.
C34_Witness ==
  /\ last.op = "transferOwnership" /\ last.result = "ok"
  /\ last.userId # last.targetId
  /\ HoldsOwnerToken(last.tenantId, last.userId)
  /\ ActiveRoleOf(last.tenantId, last.userId) = {"ADMIN"}
  /\ "OWNER" \in ActiveRoleOf(last.tenantId, last.targetId)

\* C35: in every reachable state every OWNER membership of a tenant is
\* active: no sequence of inviteUser, acceptInvitation, updateMember and
\* transferOwnership yields an OWNER membership with isActive false.
C35_OwnerIsActive ==
  \A tu \in tenantUsers : tu.role = "OWNER" => tu.isActive

\* ------------------------------------------------------------------------
\* Deactivation and acceptance: updateMember is sent with isActive false
\* only, and for members that are active, so that a successful updateMember
\* is a deactivation
\* ------------------------------------------------------------------------
NextReactivate ==
  \/ \E s \in Salts : Register("a@x.com", "P@ssw0rd1", s)
  \/ \E t \in tenants, u \in UserIds, e \in InviteEmails, r \in ContextRoles :
       InviteUser(t, u, e, r, {})
  \/ \E u \in UserIds : AcceptInvitation(u)
  \/ \E tu \in tenantUsers, u \in UserIds :
       tu.isActive /\ UpdateMember(tu.tenantId, u, tu.userId, {}, {}, {FALSE})

SpecReactivate == Init /\ [][NextReactivate]_vars

\* C36: acceptInvitation activates only a membership that inviteUser created
\* and that has never been active; in particular, when updateMember has just
\* deactivated a member, an acceptInvitation call of that member does not
\* make the membership active again.
C36_NoReactivationByAcceptance ==
  [][(last.op = "updateMember" /\ last.result = "ok")
       => ~(/\ last'.op = "acceptInvitation" /\ last'.result = "ok"
            /\ last'.userId = last.targetId
            /\ last'.tenantId = last.tenantId)]_vars

\* ------------------------------------------------------------------------
\* AuthService.resetPassword call by call: one step per awaited store
\* operation
\* ------------------------------------------------------------------------
ResetBegin(p, token, newPassword, newSalt) ==
  /\ calls[p].pc = "idle"
  /\ SetCall(p, [op |-> "resetPassword", pc |-> "findUnique", token |-> token,
                 newPassword |-> newPassword, newSalt |-> newSalt,
                 result |-> "pending", resetToken |-> {}, changed |-> FALSE,
                 fresh |-> ResetPasswordResult(token) = "ok"])
  /\ UNCHANGED <<dbVars, redis, now, ticks, client, ids, issued, hist, last>>

\* await prisma.passwordReset.findUnique(...), then the test of the record
ResetFindUnique(p) ==
  /\ calls[p].op = "resetPassword" /\ calls[p].pc = "findUnique"
  /\ IF ResetPasswordResult(calls[p].token) # "ok"
     THEN Return(p, ResetPasswordResult(calls[p].token))
     ELSE SetCall(p, [calls[p] EXCEPT !.pc = "transaction",
                        !.resetToken = ResetRecordOf(calls[p].token)])
  /\ UNCHANGED <<dbVars, redis, now, ticks, client, ids, issued, hist, last>>

\* bcrypt.genSalt, bcrypt.hash, await prisma.$transaction([user.update,
\* passwordReset.update]): both rows are updated by id, in one transaction
ResetTransaction(p) ==
  /\ calls[p].op = "resetPassword" /\ calls[p].pc = "transaction"
  /\ LET c == calls[p]
         r == CHOOSE x \in c.resetToken : TRUE
         user == CHOOSE u \in UserById(r.userId) : TRUE
     IN  /\ users' = (users \ {user}) \cup
                     {[user EXCEPT !.passwordHash =
                         bcryptHash(c.newPassword, c.newSalt)]}
         /\ passwordResets' = {IF x.id = r.id THEN [x EXCEPT !.isUsed = TRUE]
                               ELSE x : x \in passwordResets}
         /\ SetCall(p, [c EXCEPT !.pc = "revokeAll", !.changed = TRUE])
  /\ UNCHANGED <<tenants, tenantUsers, redis, now, ticks, client, ids, issued, hist,
                 last>>

\* await tokenService.revokeAllUserSessions(resetToken.userId), and return
ResetRevokeAll(p) ==
  /\ calls[p].op = "resetPassword" /\ calls[p].pc = "revokeAll"
  /\ LET r == CHOOSE x \in calls[p].resetToken : TRUE
     IN  /\ redis' = revokeAllUserSessions(redis, r.userId, now)
         /\ hist' = [hist EXCEPT
                       !.revoked = @ \cup RevokedByAll(redis, r.userId, now),
                       !.outdated = @ \cup RefreshTokensOf(r.userId)]
         /\ last' = Outcome("resetPassword", "ok", r.userId, NoId, {}, {})
  /\ Return(p, "ok")
  /\ UNCHANGED <<dbVars, now, ticks, client, ids, issued>>

NextReset ==
  \/ \E e \in AuthEmails, s \in Salts : Register(e, "P@ssw0rd1", s)
  \/ \E e \in AuthEmails : ForgotPassword(e)
  \/ \E p \in Procs, tok \in 1..MaxResets, pw \in Passwords, s \in Salts :
       ResetBegin(p, tok, pw, s)
  \/ \E p \in Procs : ResetFindUnique(p)
  \/ \E p \in Procs : ResetTransaction(p)
  \/ \E p \in Procs : ResetRevokeAll(p)

SpecReset == Init /\ [][NextReset]_vars

\* C37: of two concurrent resetPassword calls that present the same reset
\* token, valid and unused when they arrive, at most one changes the user's
\* password; the other fails with BadRequest.
C37_OneResetPerToken ==
  \A p, q \in Procs :
    (/\ p # q
     /\ calls[p].op = "resetPassword" /\ calls[q].op = "resetPassword"
     /\ calls[p].token = calls[q].token
     /\ calls[p].fresh /\ calls[q].fresh)
    => /\ ~(calls[p].changed /\ calls[q].changed)
       /\ (calls[p].pc = "done" /\ calls[q].pc = "done")
            => "BadRequest" \in {calls[p].result, calls[q].result}

\* ------------------------------------------------------------------------
\* RolesGuard
\* ------------------------------------------------------------------------
MaxRequiredRoles == 2   \* length of the longest @Roles(...) list

\* Array.prototype.includes
includes(array, x) == \E i \in DOMAIN array : array[i] = x

\* faulty variant: a request without a payload passes
canActivate_NoUserPasses(requiredRoles, user) ==
  IF requiredRoles = {} THEN "true"
  ELSE LET roles == CHOOSE r \in requiredRoles : TRUE IN
    IF Len(roles) = 0 THEN "true"
    ELSE IF user = {} THEN "true"
    ELSE LET payload == CHOOSE u \in user : TRUE IN
      IF payload.role = "" THEN "Forbidden"
      ELSE IF ~includes(roles, payload.role) THEN "Forbidden"
      ELSE "true"

\* RolesGuard.canActivate: "true", or the exception it throws.
\* requiredRoles is the reflector's reply: {} when no metadata is set, else
\* the one list; user is request.user: {} when undefined, else the payload,
\* whose role is "" when the field is missing or empty
canActivate(requiredRoles, user) ==
  IF requiredRoles = {} THEN "true"
  ELSE LET roles == CHOOSE r \in requiredRoles : TRUE IN
    IF Len(roles) = 0 THEN "true"
    ELSE IF user = {} THEN "Forbidden"
    ELSE LET payload == CHOOSE u \in user : TRUE IN
      IF payload.role = "" THEN "Forbidden"
      ELSE IF ~includes(roles, payload.role) THEN "Forbidden"
      ELSE "true"

\* the @Roles(...) metadata of a route
RequiredRolesInputs ==
  {{}} \cup {{roles} : roles \in UNION {[1..n -> TenantRole] :
                                          n \in 0..MaxRequiredRoles}}

\* request.user as the guard finds it
RequestUsers ==
  {{}} \cup {{[sub |-> 1, role |-> r]} : r \in TenantRole \cup {""}}

\* a request waits at the guard of a route
InitGuard ==
  /\ users = {} /\ tenants = {} /\ tenantUsers = {} /\ passwordResets = {}
  /\ redis = <<>> /\ now = 0 /\ ticks = 0
  /\ ids = [user |-> 0, tenant |-> 0, row |-> 0, session |-> 0, reset |-> 0]
  /\ issued = {}
  /\ hist = [revoked |-> {}, consumed |-> {}, outdated |-> {}]
  /\ last = Outcome("init", "ok", NoId, NoId, {}, {})
  /\ \E requiredRoles \in RequiredRolesInputs, user \in RequestUsers :
       calls = [p \in Procs |->
                  IF p = 1
                  THEN [op |-> "canActivate", pc |-> "guard",
                        requiredRoles |-> requiredRoles, user |-> user,
                        result |-> "pending"]
                  ELSE IdleCall]
  /\ client = ClientState(0, 0)

CanActivate(p) ==
  /\ calls[p].op = "canActivate" /\ calls[p].pc = "guard"
  /\ Return(p, canActivate(calls[p].requiredRoles, calls[p].user))
  /\ UNCHANGED <<dbVars, redis, now, ticks, client, ids, issued, hist, last>>

NextRolesGuard == \E p \in Procs : CanActivate(p)

SpecRolesGuard == InitGuard /\ [][NextRolesGuard]_vars

\* the route requires no roles: no metadata, or an empty list
RequiresNoRoles(requiredRoles) ==
  \A roles \in requiredRoles : roles = <<>>

\* the payload on the request has a role that the list contains
HasRequiredRole(requiredRoles, user) ==
  \E roles \in requiredRoles, payload \in user :
    /\ payload.role # ""
    /\ \E i \in 1..Len(roles) : roles[i] = payload.role

\* C38: RolesGuard.canActivate returns true when the route requires no
\* roles; otherwise it returns true exactly when the payload on the request
\* has a role contained in the required list, and throws Forbidden in every
\* other case (no payload, no role in the payload, role not listed).
C38_RolesGuard ==
  \A p \in Procs :
    (calls[p].op = "canActivate" /\ calls[p].pc = "done") =>
      LET c == calls[p] IN
      /\ RequiresNoRoles(c.requiredRoles) => c.result = "true"
      /\ ~RequiresNoRoles(c.requiredRoles) =>
           /\ c.result = "true" <=> HasRequiredRole(c.requiredRoles, c.user)
           /\ c.result # "true" => c.result = "Forbidden"

\* C38 witness: the guard has refused a request without payload on a route
\* that requires roles.
C38_Witness ==
  \E p \in Procs :
    /\ calls[p].op = "canActivate" /\ calls[p].pc = "done"
    /\ ~RequiresNoRoles(calls[p].requiredRoles)
    /\ calls[p].user = {}
    /\ calls[p].result = "Forbidden"

\* ------------------------------------------------------------------------
\* Web API client: the response interceptor. One step is one run of
\* JavaScript up to the next await of a network reply; what the server
\* answers is open
\* ------------------------------------------------------------------------
serverVars == <<users, tenants, tenantUsers, passwordResets, redis, now, ticks,
                ids, issued, hist, last, calls>>

Queued(r, kind) == [req |-> r, kind |-> kind]

\* tokenStorage.clearTokens()
clearTokens(c) == [c EXCEPT !.accessToken = 0, !.refreshToken = 0]

\* processQueue(error, token) on the requests: a queued request is rejected,
\* or resolved with the token and sent again; a queued POST /auth/refresh is
\* rejected to the interceptor that awaits it, or sent again
processQueue(c, error, token) ==
  LET entryOf(r) == {c.failedQueue[i] : i \in {j \in DOMAIN c.failedQueue :
                                                  c.failedQueue[j].req = r}}
  IN  [c EXCEPT
         !.failedQueue = <<>>,
         !.requests = [r \in ClientRequests |->
            IF entryOf(r) = {} THEN c.requests[r]
            ELSE IF error THEN [c.requests[r] EXCEPT !.pc = "rejected"]
            ELSE IF \E e \in entryOf(r) : e.kind = "refresh"
                 THEN [c.requests[r] EXCEPT !.pc = "refreshing"]
            ELSE [c.requests[r] EXCEPT !.pc = "sent", !.token = token]]]

\* faulty variant: the flag is not consulted
refreshInProgress_Ignored(c) == FALSE

\* if (isRefreshing)
refreshInProgress(c) == c.isRefreshing

\* the page calls api.get / post / ...: the request interceptor attaches the
\* stored access token
ClientSend(r) ==
  /\ client.requests[r].pc = "idle"
  /\ client' = [client EXCEPT !.requests[r].pc = "sent",
                              !.requests[r].token = client.accessToken]
  /\ UNCHANGED serverVars

\* a 2xx response: (response) => response
ClientResponseOk(r) ==
  /\ client.requests[r].pc = "sent"
  /\ client' = [client EXCEPT !.requests[r].pc = "resolved"]
  /\ UNCHANGED serverVars

\* an error response to a request of the page: the error handler up to the
\* await of POST /auth/refresh
ClientResponseError(r, status) ==
  /\ client.requests[r].pc = "sent"
  /\ client' =
       IF status = UNAUTHORIZED /\ ~client.requests[r].retry
       THEN IF refreshInProgress(client)
            THEN [client EXCEPT
                    !.failedQueue = Append(@, Queued(r, "request")),
                    !.requests[r].pc = "queued"]
            ELSE IF client.refreshToken = 0
            THEN [processQueue(clearTokens(client), TRUE, 0) EXCEPT
                    !.isRefreshing = TRUE,
                    !.requests[r].retry = TRUE,
                    !.requests[r].pc = "rejected"]
            ELSE [client EXCEPT
                    !.isRefreshing = TRUE,
                    !.requests[r].retry = TRUE,
                    !.requests[r].pc = "refreshing"]
       ELSE [client EXCEPT !.requests[r].pc = "rejected"]
  /\ UNCHANGED serverVars

\* POST /auth/refresh is answered with new tokens: they are stored, the queue
\* is resolved, the original request is sent again, finally resets the flag
RefreshResponseOk(r) ==
  /\ client.requests[r].pc = "refreshing"
  /\ LET accessToken == client.refreshToken + 1
         stored == [client EXCEPT !.accessToken = accessToken,
                                  !.refreshToken = accessToken]
     IN  client' = [processQueue(stored, FALSE, accessToken) EXCEPT
                      !.requests[r].pc = "sent",
                      !.requests[r].token = accessToken,
                      !.isRefreshing = FALSE]
  /\ UNCHANGED serverVars

\* POST /auth/refresh is answered with an error. The POST went through
\* apiClient, so the error handler runs for it first: its config has no
\* _retry mark, and a 401 while the flag is set puts the POST itself in
\* failedQueue; otherwise the rejection reaches the catch block
RefreshResponseError(r, status) ==
  /\ client.requests[r].pc = "refreshing"
  /\ client' =
       IF status = UNAUTHORIZED /\ refreshInProgress(client)
       THEN [client EXCEPT
               !.failedQueue = Append(@, Queued(r, "refresh")),
               !.requests[r].pc = "refreshQueued"]
       ELSE [processQueue(clearTokens(client), TRUE, 0) EXCEPT
               !.requests[r].pc = "rejected",
               !.isRefreshing = FALSE]
  /\ UNCHANGED serverVars

\* the page is opened with or without stored tokens
InitClient ==
  /\ users = {} /\ tenants = {} /\ tenantUsers = {} /\ passwordResets = {}
  /\ redis = <<>> /\ now = 0 /\ ticks = 0
  /\ ids = [user |-> 0, tenant |-> 0, row |-> 0, session |-> 0, reset |-> 0]
  /\ issued = {}
  /\ hist = [revoked |-> {}, consumed |-> {}, outdated |-> {}]
  /\ last = Outcome("init", "ok", NoId, NoId, {}, {})
  /\ calls = [p \in Procs |-> IdleCall]
  /\ \E stored \in {0, 1} : client = ClientState(stored, stored)

NextClient ==
  \/ \E r \in ClientRequests : ClientSend(r)
  \/ \E r \in ClientRequests : ClientResponseOk(r)
  \/ \E r \in ClientRequests, status \in ErrorStatuses :
       ClientResponseError(r, status)
  \/ \E r \in ClientRequests : RefreshResponseOk(r)
  \/ \E r \in ClientRequests, status \in ErrorStatuses :
       RefreshResponseError(r, status)

SpecClient == InitClient /\ [][NextClient]_vars

\* the requests whose interceptor has a POST /auth/refresh in flight
RefreshInFlight(c) == {r \in ClientRequests : c.requests[r].pc = "refreshing"}

\* the requests that wait in failedQueue
InFailedQueue(c) ==
  {c.failedQueue[i].req : i \in {j \in DOMAIN c.failedQueue :
                                   c.failedQueue[j].kind = "request"}}

\* C39: at most one POST /auth/refresh is in flight at any time; while
\* isRefreshing is true a 401 response to a request not marked _retry is
\* queued in failedQueue and starts no refresh; a 401 response to a request
\* already marked _retry is rejected and starts no refresh.
C39_SingleRefresh ==
  /\ [](/\ Cardinality(RefreshInFlight(client)) <= 1
        /\ RefreshInFlight(client) # {} => client.isRefreshing)
  /\ [][\A r \in ClientRequests :
          /\ (/\ ClientResponseError(r, UNAUTHORIZED)
              /\ client.isRefreshing /\ ~client.requests[r].retry)
             => /\ client'.requests[r].pc = "queued"
                /\ r \in InFailedQueue(client')
                /\ RefreshInFlight(client') = RefreshInFlight(client)
          /\ (ClientResponseError(r, UNAUTHORIZED) /\ client.requests[r].retry)
             => /\ client'.requests[r].pc = "rejected"
                /\ RefreshInFlight(client') = RefreshInFlight(client)
                /\ client'.isRefreshing = client.isRefreshing]_vars

\* C39 witness: a refresh is in flight for one request, a second request was
\* answered 401 meanwhile and waits in failedQueue, and a third, sent again
\* after an earlier refresh and marked _retry, has been rejected.
C39_Witness ==
  \E r, q, x \in ClientRequests :
    /\ client.isRefreshing
    /\ client.requests[r].pc = "refreshing"
    /\ client.requests[q].pc = "queued" /\ q \in InFailedQueue(client)
    /\ client.requests[x].pc = "rejected" /\ client.requests[x].retry
    /\ client.refreshToken > 1

\* every request in flight is answered in the end
ClientFairness ==
  \A r \in ClientRequests :
    /\ WF_vars(ClientResponseOk(r)
               \/ \E status \in ErrorStatuses : ClientResponseError(r, status))
    /\ WF_vars(RefreshResponseOk(r)
               \/ \E status \in ErrorStatuses : RefreshResponseError(r, status))

SpecClientFair == SpecClient /\ ClientFairness

\* C40: every refresh attempt ends: whenever isRefreshing is true it becomes
\* false again, and every request queued in failedQueue is resolved with the
\* new token or rejected, also when no refresh token is stored and when the
\* refresh call is answered with 401.
C40_RefreshEnds ==
  /\ client.isRefreshing ~> ~client.isRefreshing
  /\ \A r \in ClientRequests :
       (client.requests[r].pc = "queued") ~> (client.requests[r].pc # "queued")

====
